---- MODULE Spec2Model ----
(***************************************************************************)
(* Governance layer of the clinical-trial data platform.                   *)
(*                                                                         *)
(*   SpecContract  : the Schema Contract Engine                            *)
(*                   (src/src/governance/data_contracts.py)                *)
(*   SpecValidator : the Quality Validation Engine                         *)
(*                   (src/src/data_quality/validators.py)                  *)
(*   SpecThreads   : two threads in validate on one engine                 *)
(*   SpecClinical  : validate_clinical_data with the pre-built validators  *)
(*   SpecQuery, SpecQueryFair, SpecRequery : LineageQuery                  *)
(*   SpecTracker   : LineageTracker                                        *)
(*                   (src/src/data_quality/lineage_tracker.py)             *)
(*   SpecHash, SpecLoad : DataContract.get_schema_hash and .load           *)
(*   SpecSerial    : the to_dict methods of the reports and events         *)
(*   SpecIngest    : the ingestion handler                                 *)
(*                   (src/src/ingestion/package/lambda_handler.py)         *)
(*                                                                         *)
(* Conventions.  A Python string that the code inspects by substring       *)
(* (a pandas dtype) is a tuple of one-character strings, so that           *)
(* "'int' in dtype_str" is a real substring search.  An Optional value is  *)
(* <<>> (None / NaN) or <<v>>.                                             *)
(***************************************************************************)
EXTENDS Integers, Sequences, FiniteSets, TLC

VARIABLES
    contract,   \* the DataContract handed to validate_against_contract
    df,         \* the incoming DataFrame
    result,     \* <<>> before the call, <<ContractValidationResult>> after
    rules,      \* ClinicalDataValidator.rules
    results,    \* ClinicalDataValidator.results
    vdf,        \* the DataFrame of the last validate call
    report,     \* <<>> before the first validate, <<DataQualityReport>> after
    heap,       \* the list objects that self.results was bound to, by identity
    self_results, \* which list object self.results is bound to now
    pc,         \* where each thread stands in its validate call
    frame,      \* the local variables of each thread's validate call
    records,    \* LineageQuery.records
    by_output,  \* LineageQuery.by_output
    by_input,   \* LineageQuery.by_input
    query,      \* the query in progress: its name and arguments
    q_result,   \* result of the query in progress
    visited,    \* visited of the query in progress
    queue,      \* queue of the query in progress
    expansions, \* the locations the query has expanded so far, in order
    q_pc,       \* "loop" while the query runs, "done" when it has returned
    tracker,    \* the attributes of a LineageTracker
    asset_lists, \* the list objects of the tracker, by identity
    event,      \* <<>> before build_event, then <<the LineageEvent last returned>>
    first_answer, \* <<>>, then <<the first query answered by a LineageQuery and its result>>
    other_contract, \* a second DataContract, whose schema hash is compared
    schema_hashes, \* <<>>, then the get_schema_hash() of contract and other_contract
    contract_file, \* the JSON document DataContract.load reads
    load_outcome, \* "none" before DataContract.load, then how the latest call ended
    serial_objects, \* the two objects whose to_dict() is taken
    serial_dicts, \* <<>>, then the two dictionaries to_dict() returned
    s3_event,   \* the S3 event the ingestion handler is invoked with
    h_results,  \* results of the handler
    h_pc,       \* where the handler stands in the processing of a record
    response,   \* <<>>, then <<the response of the handler>>
    landing,    \* the objects of the landing bucket
    bronze,     \* the objects copied to the bronze bucket
    lineage_store \* the lineage records written to the bronze bucket

vars == <<contract, df, result, rules, results, vdf, report,
          heap, self_results, pc, frame,
          records, by_output, by_input, query, q_result, visited, queue,
          expansions, q_pc, tracker, asset_lists, event, first_answer,
          other_contract, schema_hashes, contract_file, load_outcome,
          serial_objects, serial_dicts,
          s3_event, h_results, h_pc, response, landing, bronze, lineage_store>>

contractVars == <<contract, df, result>>
validatorVars == <<rules, results, vdf, report>>
threadVars == <<heap, self_results, pc, frame>>
indexVars == <<records, by_output, by_input>>
queryVars == <<query, q_result, visited, queue, expansions, q_pc>>
trackerVars == <<tracker, asset_lists, event>>
callerVars == <<first_answer>>
hashVars == <<other_contract, schema_hashes>>
loadVars == <<contract_file, load_outcome>>
serialVars == <<serial_objects, serial_dicts>>
ingestVars == <<s3_event, h_results, h_pc, response, landing, bronze, lineage_store>>

\* what the operations of one subsystem leave alone
nonContractVars ==
    <<validatorVars, threadVars, indexVars, queryVars, trackerVars, callerVars,
      hashVars, loadVars,
      serialVars, ingestVars>>
nonValidatorVars ==
    <<contractVars, threadVars, indexVars, queryVars, trackerVars, callerVars,
      hashVars, loadVars,
      serialVars, ingestVars>>
nonThreadVars ==
    <<contractVars, results, vdf, report, indexVars, queryVars, trackerVars,
      callerVars, hashVars, loadVars,
      serialVars, ingestVars>>
nonQueryVars ==
    <<contractVars, validatorVars, threadVars, trackerVars, hashVars, loadVars,
      serialVars, ingestVars>>
nonTrackerVars ==
    <<contractVars, validatorVars, threadVars, indexVars, queryVars, callerVars,
      hashVars, loadVars,
      serialVars, ingestVars>>
nonHashVars ==
    <<df, result, validatorVars, threadVars, indexVars, queryVars, trackerVars,
      callerVars, loadVars,
      serialVars, ingestVars>>
nonLoadVars ==
    <<validatorVars, threadVars, indexVars, queryVars, trackerVars, callerVars,
      hashVars,
      serialVars, ingestVars>>

nonSerialVars ==
    <<contractVars, validatorVars, threadVars, indexVars, queryVars, trackerVars,
      callerVars, hashVars, loadVars, ingestVars>>
nonIngestVars ==
    <<contractVars, validatorVars, threadVars, indexVars, queryVars, trackerVars,
      callerVars, hashVars, loadVars, serialVars>>

\* the two threads that call validate on one engine
Threads == {"T1", "T2"}

\* the locals of a validate call that has not started
NoFrame ==
    [df |-> <<>>, total_records |-> 0, i |-> 0,
     has_errors |-> FALSE, has_warnings |-> FALSE, report |-> <<>>]

\* no thread is inside validate
InitThreadsIdle ==
    /\ heap = <<>>
    /\ self_results = 0
    /\ pc = [t \in Threads |-> "idle"]
    /\ frame = [t \in Threads |-> NoFrame]

\* no LineageQuery has been built
InitQueryIdle ==
    /\ records = <<>>
    /\ by_output = <<>>
    /\ by_input = <<>>
    /\ query = [name |-> "", asset_location |-> "", depth |-> 0]
    /\ q_result = <<>>
    /\ visited = {}
    /\ queue = <<>>
    /\ expansions = <<>>
    /\ q_pc = "idle"
    /\ first_answer = <<>>

\* no LineageTracker has been created
InitTrackerIdle ==
    /\ tracker = <<>>
    /\ asset_lists = <<>>
    /\ event = <<>>

\* no schema hash has been asked for
InitHashIdle ==
    /\ other_contract = <<>>
    /\ schema_hashes = <<>>

\* no contract file has been read
InitLoadIdle ==
    /\ contract_file = <<>>
    /\ load_outcome = "none"

\* no object has been serialized
InitSerialIdle ==
    /\ serial_objects = <<>>
    /\ serial_dicts = <<>>

\* the ingestion handler has not been invoked
InitIngestIdle ==
    /\ s3_event = <<>>
    /\ h_results = <<>>
    /\ h_pc = "idle"
    /\ response = <<>>
    /\ landing = {}
    /\ bronze = {}
    /\ lineage_store = {}

-----------------------------------------------------------------------------
(* Bounds of the model *)

\* explicit (freely chosen) rows of a contract-engine dataset
MaxRows == 3
\* rows of the large datasets: MaxRows free rows padded with clean rows
BigRows == 100
\* rows of the medium datasets
MidRows == 20

-----------------------------------------------------------------------------
(* Generic helpers *)

None == <<>>

Some(v) == <<v>>

Range(s) == {s[i] : i \in 1..Len(s)}

RECURSIVE SumSeq(_)
SumSeq(s) == IF s = <<>> THEN 0 ELSE Head(s) + SumSeq(Tail(s))

\* Python: needle in s
Contains(s, needle) ==
    \E i \in 1..(Len(s) - Len(needle) + 1) :
        SubSeq(s, i, i + Len(needle) - 1) = needle

\* all orders in which a set can be iterated
Orders(S) ==
    {q \in [1..Cardinality(S) -> S] : \A i, j \in 1..Cardinality(S) : q[i] = q[j] => i = j}

-----------------------------------------------------------------------------
(* String literals of data_contracts.py *)

s_int == <<"i", "n", "t">>
s_float == <<"f", "l", "o", "a", "t">>
s_object == <<"o", "b", "j", "e", "c", "t">>
s_string == <<"s", "t", "r", "i", "n", "g">>
s_datetime == <<"d", "a", "t", "e", "t", "i", "m", "e">>
s_bool == <<"b", "o", "o", "l">>
s_int64 == s_int \o <<"6", "4">>
s_float64 == s_float \o <<"6", "4">>
s_datetime64 == s_datetime \o <<"6", "4">>
s_boolean == s_bool \o <<"e", "a", "n">>

\* str(dtype) of the pandas dtypes a column of numbers or objects can have
p_int64 == s_int64
p_int32 == s_int \o <<"3", "2">>
p_float64 == s_float64
p_object == s_object

CompatibilityMode == {"backward", "forward", "full", "none"}

-----------------------------------------------------------------------------
(* DataFrame: [n |-> number of rows, columns |-> sequence of                *)
(* [name, dtype, data]], data a sequence of n cells, a cell <<>> (NaN) or   *)
(* <<number>>.                                                              *)

df_columns(d) == {d.columns[i].name : i \in 1..Len(d.columns)}

df_col(d, name) == (CHOOSE i \in 1..Len(d.columns) : d.columns[i].name = name)

df_dtype(d, name) == d.columns[df_col(d, name)].dtype

df_data(d, name) == d.columns[df_col(d, name)].data

\* len(df)
len_df(d) == d.n

\* ContractValidator.__init__: self.column_map = {c.name: c for c in contract.columns}
column_map(c) ==
    [name \in {c.columns[i].name : i \in 1..Len(c.columns)} |->
        c.columns[CHOOSE i \in 1..Len(c.columns) :
            /\ c.columns[i].name = name
            /\ \A j \in (i + 1)..Len(c.columns) : c.columns[j].name # name]]

-----------------------------------------------------------------------------
(* ContractValidator.detect_schema_changes *)

_normalize_dtype(dtype_str) ==
    IF Contains(dtype_str, s_int) THEN s_int64
    ELSE IF Contains(dtype_str, s_float) THEN s_float64
    ELSE IF Contains(dtype_str, s_object) \/ Contains(dtype_str, s_string) THEN s_string
    ELSE IF Contains(dtype_str, s_datetime) THEN s_datetime64
    ELSE IF Contains(dtype_str, s_bool) THEN s_boolean
    ELSE dtype_str

\* mutant: the upcast relation made symmetric
types_compatible_symmetric(expected, actual) ==
    \/ expected = actual
    \/ {expected, actual} = {s_float64, s_int64}
    \/ expected = s_string /\ actual \in {s_string, s_object}

_types_compatible(expected, actual) ==
    IF expected = actual THEN TRUE
    ELSE IF expected = s_float64 /\ actual = s_int64 THEN TRUE
    ELSE IF expected = s_string /\ actual \in {s_string, s_object} THEN TRUE
    ELSE FALSE

\* mutant: FULL treated as including FORWARD
added_is_breaking_full(mode) == mode \in {"forward", "full"}

\* is_breaking of a COLUMN_ADDED change
added_is_breaking(mode) == mode = "forward"

\* mutant: FULL left out of the modes under which a removal is breaking
removed_is_breaking_backward_only(mode) == mode = "backward"

\* is_breaking of a COLUMN_REMOVED change
removed_is_breaking(mode) == mode \in {"backward", "full"}

column_added(d, c, col) ==
    [change_type |-> "column_added",
     column_name |-> col,
     old_value |-> None,
     new_value |-> Some(df_dtype(d, col)),
     is_breaking |-> added_is_breaking(c.compatibility_mode)]

column_removed(d, c, col) ==
    [change_type |-> "column_removed",
     column_name |-> col,
     old_value |-> Some(column_map(c)[col].dtype),
     new_value |-> None,
     is_breaking |-> removed_is_breaking(c.compatibility_mode)]

type_changed(d, c, col) ==
    [change_type |-> "type_changed",
     column_name |-> col,
     old_value |-> Some(column_map(c)[col].dtype),
     new_value |-> Some(_normalize_dtype(df_dtype(d, col))),
     is_breaking |-> TRUE]

\* the columns of the third loop that get a change appended
type_changed_columns(d, c) ==
    {col \in df_columns(d) \cap DOMAIN column_map(c) :
        ~_types_compatible(column_map(c)[col].dtype, _normalize_dtype(df_dtype(d, col)))}

\* The three loops run over Python sets, whose iteration order is not fixed:
\* the value is the set of lists the call can return.
detect_schema_changes(d, c) ==
    LET incoming_columns == df_columns(d)
        contract_columns == DOMAIN column_map(c)
    IN  {[i \in 1..Len(a) |-> column_added(d, c, a[i])]
           \o [i \in 1..Len(r) |-> column_removed(d, c, r[i])]
           \o [i \in 1..Len(t) |-> type_changed(d, c, t[i])] :
            a \in Orders(incoming_columns \ contract_columns),
            r \in Orders(contract_columns \ incoming_columns),
            t \in Orders(type_changed_columns(d, c))}

-----------------------------------------------------------------------------
(* ContractValidator.validate_values *)

\* mutant: isna().all() in place of isna().sum(), which is True of an empty column
null_count_all(col_data) ==
    IF \A i \in 1..Len(col_data) : col_data[i] = None THEN 1 ELSE 0

\* col_data.isna().sum()
null_count(col_data) ==
    Cardinality({i \in 1..Len(col_data) : col_data[i] = None})

\* col_data.duplicated().sum(): every occurrence of a value after its first
\* (NaN counts as a value)
dup_count(col_data) == Len(col_data) - Cardinality(Range(col_data))

\* mutant: "& col_data.notna()" forgotten, a null is not in the allow-list
invalid_count_nulls_included(col_data, allowed_values) ==
    Cardinality({i \in 1..Len(col_data) :
        \/ col_data[i] = None
        \/ col_data[i][1] \notin Range(allowed_values)})

\* (~col_data.isin(allowed_values) & col_data.notna()).sum()
invalid_count(col_data, allowed_values) ==
    Cardinality({i \in 1..Len(col_data) :
        /\ col_data[i] # None
        /\ col_data[i][1] \notin Range(allowed_values)})

\* (col_data < min_value).sum(): a comparison with NaN is False
below_min(col_data, min_value) ==
    Cardinality({i \in 1..Len(col_data) :
        col_data[i] # None /\ col_data[i][1] < min_value})

\* (col_data > max_value).sum()
above_max(col_data, max_value) ==
    Cardinality({i \in 1..Len(col_data) :
        col_data[i] # None /\ col_data[i][1] > max_value})

check(name, failed) == [check |-> name, passed |-> (failed = 0), failed_count |-> failed]

\* the checks of one declared column, in the order they are appended
column_checks(col_contract, col_data) ==
    (IF ~col_contract.nullable
        THEN <<check("not_null", null_count(col_data))>> ELSE <<>>)
    \o (IF col_contract.unique
        THEN <<check("unique", dup_count(col_data))>> ELSE <<>>)
    \o (IF col_contract.allowed_values # <<>>
        THEN <<check("allowed_values", invalid_count(col_data, col_contract.allowed_values))>>
        ELSE <<>>)
    \o (IF col_contract.min_value # None
        THEN <<check("min_value", below_min(col_data, col_contract.min_value[1]))>> ELSE <<>>)
    \o (IF col_contract.max_value # None
        THEN <<check("max_value", above_max(col_data, col_contract.max_value[1]))>> ELSE <<>>)

validate_values(d, c) ==
    [col_name \in {c.columns[i].name : i \in 1..Len(c.columns)} \cap df_columns(d) |->
        LET checks == column_checks(column_map(c)[col_name], df_data(d, col_name))
        IN  [column |-> col_name,
             checks |-> checks,
             failed_count |-> SumSeq([i \in 1..Len(checks) |-> checks[i].failed_count])]]

-----------------------------------------------------------------------------
(* validate_against_contract *)

\* any(c.is_breaking for c in schema_changes)
has_breaking_of(schema_changes) ==
    \E i \in 1..Len(schema_changes) : schema_changes[i].is_breaking

\* sum(v["failed_count"] for v in value_validation.values())
RECURSIVE failed_records_of(_)
failed_records_of(value_validation) ==
    IF DOMAIN value_validation = {} THEN 0
    ELSE LET k == CHOOSE k \in DOMAIN value_validation : TRUE
         IN  value_validation[k].failed_count
             + failed_records_of([x \in DOMAIN value_validation \ {k} |-> value_validation[x]])

\* the division failed_records / len(df) is evaluated only in the branch
\* "elif failed_records > 0"
reaches_division(has_breaking, failed_records) ==
    ~has_breaking /\ failed_records > 0

\* mutant: the threshold made inclusive
over_threshold_inclusive(failed_records, total) == 20 * failed_records >= total

\* failed_records / len(df) > 0.05.  The quotient of two row counts is the
\* double nearest to the exact ratio and 0.05 is the double nearest to 1/20,
\* so the test is the exact 20 * failed > total for every count below 2^52.
\* (failed_records is a numpy integer: over zero rows the quotient would be
\* inf, which is > 0.05.)
over_threshold(failed_records, total) == 20 * failed_records > total

\* mutant: the value checks decided before the breaking schema changes
decide_values_first(has_breaking, failed_records, total, schema_changes) ==
    IF failed_records > 0 THEN
        IF 20 * failed_records > total
        THEN [action |-> "quarantine", is_valid |-> FALSE]
        ELSE [action |-> "alert", is_valid |-> TRUE]
    ELSE IF has_breaking THEN [action |-> "quarantine", is_valid |-> FALSE]
    ELSE IF schema_changes # <<>> THEN [action |-> "alert", is_valid |-> TRUE]
    ELSE [action |-> "accept", is_valid |-> TRUE]

\* the if / elif chain that sets action and is_valid
decide(has_breaking, failed_records, total, schema_changes) ==
    IF has_breaking THEN [action |-> "quarantine", is_valid |-> FALSE]
    ELSE IF reaches_division(has_breaking, failed_records) THEN
        IF over_threshold(failed_records, total)
        THEN [action |-> "quarantine", is_valid |-> FALSE]
        ELSE [action |-> "alert", is_valid |-> TRUE]
    ELSE IF schema_changes # <<>> THEN [action |-> "alert", is_valid |-> TRUE]
    ELSE [action |-> "accept", is_valid |-> TRUE]

\* the set of results the call can return (one per order of the schema changes)
validate_against_contract(d, c) ==
    {LET has_breaking == has_breaking_of(schema_changes)
         value_validation == validate_values(d, c)
         failed_records == failed_records_of(value_validation)
         verdict == decide(has_breaking, failed_records, len_df(d), schema_changes)
     IN  [contract_name |-> c.name,
          schema_changes |-> schema_changes,
          has_breaking_changes |-> has_breaking,
          value_validation |-> value_validation,
          total_records |-> len_df(d),
          failed_records |-> failed_records,
          is_valid |-> verdict.is_valid,
          action |-> verdict.action] :
        schema_changes \in detect_schema_changes(d, c)}

-----------------------------------------------------------------------------
(* Inputs of the contract engine *)

\* ColumnContract.dtype, as documented at the field
DeclaredTypes == {s_string, s_int64, s_float64, s_datetime64, s_boolean}

PandasDtypes == {p_int64, p_int32, p_float64, p_object}

Cells == {None, Some(0), Some(1), Some(3)}

Clean == Some(1)

SeqsUpTo(S, n) == UNION {[1..k -> S] : k \in 0..n}

\* e followed by clean rows, n rows in all
Padded(e, n) == [i \in 1..n |-> IF i <= Len(e) THEN e[i] ELSE Clean]

\* an int column holds no NaN
DtypeHolds(dtype, data) ==
    Contains(dtype, s_int) => None \notin Range(data)

ColumnContract(name, dtype, nullable, unique, allowed_values, min_value, max_value) ==
    [name |-> name, dtype |-> dtype, nullable |-> nullable, unique |-> unique,
     allowed_values |-> allowed_values, min_value |-> min_value, max_value |-> max_value]

DataContract(columns, mode) ==
    [name |-> "dm_demographics", columns |-> columns, compatibility_mode |-> mode,
     primary_key |-> <<>>]

DataFrame(n, columns) == [n |-> n, columns |-> columns]

Column(name, dtype, data) == [name |-> name, dtype |-> dtype, data |-> data]

\* every combination of the value constraints of one column
Constraints ==
    [nullable : BOOLEAN, unique : BOOLEAN, allowed_values : {<<>>, <<1, 3>>},
     min_value : {None, Some(1)}, max_value : {None, Some(2)}]

Lenient == [nullable |-> TRUE, unique |-> FALSE, allowed_values |-> <<>>,
            min_value |-> None, max_value |-> None]

Required == [nullable |-> FALSE, unique |-> FALSE, allowed_values |-> <<>>,
             min_value |-> None, max_value |-> None]

Strict == [nullable |-> FALSE, unique |-> TRUE, allowed_values |-> <<1, 3>>,
           min_value |-> Some(1), max_value |-> Some(2)]

WithConstraints(name, dtype, k) ==
    ColumnContract(name, dtype, k.nullable, k.unique, k.allowed_values,
                   k.min_value, k.max_value)

\* Schema cases: every compatibility mode, declared type and observed dtype of
\* column A, columns A and B present or missing, an undeclared column X
\* present or not, few rows.
InitSchemaCases ==
    \E mode \in CompatibilityMode, declared \in DeclaredTypes,
       k \in {Lenient, Required, Strict}, hasB \in BOOLEAN,
       obsA \in PandasDtypes \cup {None}, obsB \in {p_int64, p_float64, None},
       hasX \in BOOLEAN,
       e \in SeqsUpTo(Cells, 1), n \in {0, 1, MidRows} :
        /\ n >= Len(e)
        /\ n > 0 \/ e = <<>>
        /\ obsA # None => DtypeHolds(obsA, Padded(e, n))
        /\ contract = DataContract(
               <<WithConstraints("A", declared, k)>>
               \o (IF hasB THEN <<WithConstraints("B", s_int64, Lenient)>> ELSE <<>>),
               mode)
        /\ df = DataFrame(n,
               (IF obsA # None THEN <<Column("A", obsA, Padded(e, n))>> ELSE <<>>)
               \o (IF obsB # None THEN <<Column("B", obsB, Padded(<<>>, n))>> ELSE <<>>)
               \o (IF hasX THEN <<Column("X", p_object, Padded(<<>>, n))>> ELSE <<>>))

\* Value cases: the declared columns are present with compatible types; every
\* combination of constraints on A, every choice of up to MaxRows rows, alone
\* or padded with clean rows to MidRows, MidRows + 1 or BigRows rows.
InitValueCases ==
    \E mode \in {"backward", "none"}, k \in Constraints, hasB \in BOOLEAN,
       hasX \in BOOLEAN,
       e \in SeqsUpTo(Cells, MaxRows), n \in {0, MidRows, MidRows + 1, BigRows} :
        /\ n = 0 \/ Len(e) = MaxRows
        /\ hasX => ~hasB
        /\ contract = DataContract(
               <<WithConstraints("A", s_float64, k)>>
               \o (IF hasB THEN <<WithConstraints("B", s_float64, Strict)>> ELSE <<>>),
               mode)
        /\ LET rows == IF n = 0 THEN Len(e) ELSE n
           IN  df = DataFrame(rows,
                   <<Column("A", p_float64, Padded(e, rows))>>
                   \o (IF hasB THEN <<Column("B", p_float64, Padded(e, rows))>> ELSE <<>>)
                   \o (IF hasX THEN <<Column("X", p_object, Padded(<<>>, rows))>> ELSE <<>>))

InitValidatorIdle ==
    /\ rules = <<>>
    /\ results = <<>>
    /\ vdf = <<>>
    /\ report = <<>>

InitContract ==
    /\ InitSchemaCases \/ InitValueCases
    /\ result = <<>>
    /\ InitValidatorIdle
    /\ InitThreadsIdle
    /\ InitQueryIdle
    /\ InitTrackerIdle
    /\ InitHashIdle
    /\ InitLoadIdle
    /\ InitSerialIdle
    /\ InitIngestIdle

\* result = validate_against_contract(df, contract)
ValidateAgainstContract ==
    /\ result = <<>>
    /\ \E r \in validate_against_contract(df, contract) : result' = <<r>>
    /\ UNCHANGED <<contract, df>>
    /\ UNCHANGED nonContractVars

NextContract == ValidateAgainstContract

SpecContract == InitContract /\ [][NextContract]_vars

-----------------------------------------------------------------------------
(* Claims about the contract engine (checked under SpecContract) *)

Returned == result # <<>>

ContractNames == {contract.columns[i].name : i \in 1..Len(contract.columns)}

Declared(col) ==
    contract.columns[CHOOSE i \in 1..Len(contract.columns) :
        contract.columns[i].name = col].dtype

Changes(r) == Range(r.schema_changes)

AnyBreaking(r) == \E ch \in Changes(r) : ch.is_breaking

\* the failure ratio is above 5%, a ratio over zero rows counting as 0
RatioAboveFivePercent(r) ==
    r.total_records > 0 /\ r.failed_records * 100 > 5 * r.total_records

\* the decision policy as the specification words it, first match wins
PolicyOf(r) ==
    IF AnyBreaking(r) THEN <<"quarantine", FALSE>>
    ELSE IF RatioAboveFivePercent(r) THEN <<"quarantine", FALSE>>
    ELSE IF r.failed_records > 0 THEN <<"alert", TRUE>>
    ELSE IF Changes(r) # {} THEN <<"alert", TRUE>>
    ELSE <<"accept", TRUE>>

\* C1: validate_against_contract sets action and is_valid by the first
\* matching case of: breaking change -> quarantine/false; failure ratio above
\* 5% -> quarantine/false; some failed record -> alert/true; some schema
\* change -> alert/true; otherwise accept/true.  A breaking change wins over
\* the value checks, and accept needs no schema change and no failed record.
C1_DecisionPolicy ==
    Returned =>
        LET r == result[1]
        IN  /\ <<r.action, r.is_valid>> = PolicyOf(r)
            /\ AnyBreaking(r) => r.action = "quarantine" /\ ~r.is_valid
            /\ r.action = "accept" => Changes(r) = {} /\ r.failed_records = 0

\* C1 witness: a breaking change together with value failures that alone
\* would only alert (1 failed row of 20) is quarantined.
C1_Witness ==
    /\ Returned
    /\ AnyBreaking(result[1])
    /\ result[1].failed_records = 1
    /\ result[1].total_records = 20
    /\ result[1].action = "quarantine"

\* C2: under BACKWARD or FULL, every contract column missing from the dataset
\* is reported as COLUMN_REMOVED with is_breaking = true, and the result is
\* quarantine with is_valid = false whatever the value checks yield.
C2_RemovedColumnQuarantines ==
    Returned /\ contract.compatibility_mode \in {"backward", "full"} =>
        \A col \in ContractNames \ df_columns(df) :
            /\ \E ch \in Changes(result[1]) :
                /\ ch.change_type = "column_removed"
                /\ ch.column_name = col
                /\ ch.is_breaking
            /\ result[1].action = "quarantine"
            /\ ~result[1].is_valid

\* C2 witness: under FULL a declared column is missing while no value check
\* fails, and the result is quarantine.
C2_Witness ==
    /\ Returned
    /\ contract.compatibility_mode = "full"
    /\ ContractNames \ df_columns(df) # {}
    /\ result[1].failed_records = 0
    /\ result[1].action = "quarantine"

\* C3: every undeclared dataset column is reported as COLUMN_ADDED, breaking
\* exactly under FORWARD; under the other modes a dataset whose only deviation
\* is such columns (no failed record, no other change) is not quarantined.
C3_AddedColumn ==
    Returned =>
        LET r == result[1]
            added == {ch \in Changes(r) : ch.change_type = "column_added"}
        IN  /\ {ch.column_name : ch \in added} = df_columns(df) \ ContractNames
            /\ \A ch \in added :
                ch.is_breaking <=> contract.compatibility_mode = "forward"
            /\ (/\ contract.compatibility_mode # "forward"
                /\ added # {}
                /\ Changes(r) = added
                /\ r.failed_records = 0) => r.action # "quarantine"

\* C3 witness: under FULL an extra column is the only deviation; the change is
\* non-breaking and the action is alert.
C3_Witness ==
    /\ Returned
    /\ contract.compatibility_mode = "full"
    /\ Changes(result[1]) # {}
    /\ \A ch \in Changes(result[1]) : ch.change_type = "column_added" /\ ~ch.is_breaking
    /\ result[1].failed_records = 0
    /\ result[1].action = "alert"

\* the two allowed upcasts: declared float with observed int, declared string
\* with observed string-like
AllowedUpcast(declared, observed) ==
    \/ declared = s_float64 /\ observed = s_int64
    \/ declared = s_string /\ observed = s_string

\* C4: a column present in dataset and contract gets a TYPE_CHANGED change,
\* always breaking and in every mode, exactly when its observed type differs
\* from the declared type and the pair is not an allowed upcast: a pandas int
\* column under a float declaration and an object column under a string
\* declaration are not reported; a float column under an int declaration and
\* an int column under a string declaration are.
C4_TypeChanged ==
    Returned =>
        LET r == result[1]
            changed == {ch \in Changes(r) : ch.change_type = "type_changed"}
        IN  /\ \A ch \in changed : ch.is_breaking
            /\ \A col \in df_columns(df) \cap ContractNames :
                LET observed == _normalize_dtype(df_dtype(df, col))
                IN  (\E ch \in changed : ch.column_name = col)
                        <=> (observed # Declared(col) /\ ~AllowedUpcast(Declared(col), observed))
            /\ \A ch \in changed : ch.column_name \in df_columns(df) \cap ContractNames
            /\ \A col \in df_columns(df) \cap ContractNames :
                LET reported == \E ch \in changed : ch.column_name = col
                    dtype == df_dtype(df, col)
                IN  /\ Declared(col) = s_float64 /\ dtype \in {p_int64, p_int32} => ~reported
                    /\ Declared(col) = s_string /\ dtype = p_object => ~reported
                    /\ Declared(col) = s_int64 /\ dtype = p_float64 => reported
                    /\ Declared(col) = s_string /\ dtype \in {p_int64, p_int32} => reported

\* C4 witness: the relation is not symmetric: declared int with observed float
\* is a breaking TYPE_CHANGED, under mode NONE.
C4_Witness ==
    /\ Returned
    /\ contract.compatibility_mode = "none"
    /\ "A" \in df_columns(df)
    /\ Declared("A") = s_int64
    /\ df_dtype(df, "A") = p_float64
    /\ \E ch \in Changes(result[1]) :
        ch.change_type = "type_changed" /\ ch.column_name = "A" /\ ch.is_breaking

\* C5: without a breaking change the action is quarantine exactly when
\* failed_records * 100 > 5 * total_records; 5 failed of 100 is alert and
\* 6 failed of 100 is quarantine.
C5_StrictThreshold ==
    Returned /\ ~AnyBreaking(result[1]) =>
        LET r == result[1]
        IN  /\ r.action = "quarantine" <=> r.failed_records * 100 > 5 * r.total_records
            /\ r.total_records = 100 /\ r.failed_records = 5 => r.action = "alert"
            /\ r.total_records = 100 /\ r.failed_records = 6 => r.action = "quarantine"

\* C5 witness: exactly 5 failed of 100 rows, no breaking change: alert.
C5_Witness ==
    /\ Returned
    /\ ~AnyBreaking(result[1])
    /\ result[1].total_records = 100
    /\ result[1].failed_records = 5
    /\ result[1].action = "alert"

\* C6: over a dataset of zero rows the division failed_records / len(df) is
\* never evaluated, and the action is quarantine only when a breaking schema
\* change exists.
C6_EmptyDataset ==
    Returned /\ len_df(df) = 0 =>
        LET r == result[1]
        IN  /\ r.total_records = 0
            /\ ~(~AnyBreaking(r) /\ r.failed_records > 0)
            /\ r.action = "quarantine" <=> AnyBreaking(r)

\* C6 witness: zero rows, a declared column with every value check switched
\* on, no breaking change: the result is returned and is not quarantine.
C6_Witness ==
    /\ Returned
    /\ len_df(df) = 0
    /\ \E i \in 1..Len(contract.columns) :
        /\ contract.columns[i].name \in df_columns(df)
        /\ ~contract.columns[i].nullable
        /\ contract.columns[i].unique
        /\ contract.columns[i].min_value # None
    /\ ~AnyBreaking(result[1])
    /\ result[1].action # "quarantine"

-----------------------------------------------------------------------------
(* Quality Validation Engine: ClinicalDataValidator                         *)
(*                                                                         *)
(* A rule is [name, description, func, severity].  A predicate returns      *)
(* [raised, error, passed, failed_rows]: either it raises (error is         *)
(* str(e)), or it returns (passed, failed_df), failed_df being the rows of  *)
(* df at the indices failed_rows.                                           *)

ValidationSeverity == {"error", "warning", "info"}

returns(passed, failed_rows) ==
    [raised |-> FALSE, error |-> "", passed |-> passed, failed_rows |-> failed_rows]

raises(error) ==
    [raised |-> TRUE, error |-> error, passed |-> FALSE, failed_rows |-> <<>>]

\* df[mask]: the indices i >= from of the rows whose mask is True, in row order
RECURSIVE rows_where(_, _)
rows_where(mask, from) ==
    IF from > Len(mask) THEN <<>>
    ELSE (IF mask[from] THEN <<from>> ELSE <<>>) \o rows_where(mask, from + 1)

\* str(e) of the KeyError that df[col] raises: the column name in quotes
str_KeyError(col) == <<"'", col, "'">>

\* create_dm_validator.check_usubjid_not_null; df['USUBJID'] raises KeyError
\* when the column is missing
check_usubjid_not_null(d) ==
    IF "USUBJID" \notin df_columns(d) THEN raises(str_KeyError("USUBJID"))
    ELSE LET isna == [i \in 1..len_df(d) |-> df_data(d, "USUBJID")[i] = None]
             null_records == rows_where(isna, 1)
         IN  returns(null_records = <<>>, null_records)

\* create_dm_validator.check_age_range
check_age_range(d) ==
    IF "AGE" \notin df_columns(d) THEN raises(str_KeyError("AGE"))
    ELSE LET bad == [i \in 1..len_df(d) |->
                        /\ df_data(d, "AGE")[i] # None
                        /\ \/ df_data(d, "AGE")[i][1] < 0
                           \/ df_data(d, "AGE")[i][1] > 120]
             invalid == rows_where(bad, 1)
         IN  returns(invalid = <<>>, invalid)

\* df[df[col].isna()]: the rule body shared by the "cannot be null" rules;
\* df[col] raises KeyError when the column is missing
check_not_null(d, col) ==
    IF col \notin df_columns(d) THEN raises(str_KeyError(col))
    ELSE LET isna == [i \in 1..len_df(d) |-> df_data(d, col)[i] = None]
             null_records == rows_where(isna, 1)
         IN  returns(null_records = <<>>, null_records)

\* df.empty: no row or no column
df_empty(d) == len_df(d) = 0 \/ d.columns = <<>>

\* create_dm_validator.check_usubjid_unique: df.duplicated(subset=['USUBJID'],
\* keep=False) returns an empty mask for an empty frame before it looks at
\* subset, and df[mask] raises IndexingError when the frame has rows (and no
\* column) because the mask does not align with them; otherwise it raises
\* KeyError(Index(['USUBJID'])) when the column is missing, and marks every row whose USUBJID occurs in another row, NaN
\* counting as a value
check_usubjid_unique(d) ==
    IF df_empty(d)
    THEN (IF len_df(d) = 0 THEN returns(TRUE, <<>>)
          ELSE raises("Unalignable boolean Series provided as indexer (index of the boolean Series and of the indexed object do not match)."))
    ELSE IF "USUBJID" \notin df_columns(d)
    THEN raises("Index(['USUBJID'], dtype='object')")
    ELSE LET ids == df_data(d, "USUBJID")
             duplicated == [i \in 1..len_df(d) |->
                               \E j \in 1..len_df(d) : j # i /\ ids[j] = ids[i]]
             duplicates == rows_where(duplicated, 1)
         IN  returns(duplicates = <<>>, duplicates)

\* s.upper() of the strings the datasets hold
upper(s) ==
    CASE s = "m" -> "M" [] s = "f" -> "F" [] s = "mild" -> "MILD"
      [] s = "y" -> "Y" [] s = "low" -> "LOW" [] OTHER -> s

\* df[~df[col].str.upper().isin(valid)]: .str raises AttributeError on a
\* column that is not of dtype object; a null cell is in no list
check_isin(d, col, valid) ==
    IF col \notin df_columns(d) THEN raises(str_KeyError(col))
    ELSE IF df_dtype(d, col) # p_object THEN raises("Can only use .str accessor with string values!")
    ELSE LET cells == df_data(d, col)
             bad == [i \in 1..len_df(d) |->
                        cells[i] = None \/ upper(cells[i][1]) \notin valid]
             invalid == rows_where(bad, 1)
         IN  returns(invalid = <<>>, invalid)

\* create_dm_validator.check_sex_values
check_sex_values(d) == check_isin(d, "SEX", {"M", "F", "U", "UNDIFFERENTIATED"})

\* create_dm_validator.check_arm_populated
check_arm_populated(d) == check_not_null(d, "ARM")

\* the number a string of digits denotes, -1 when it is no such string
digit(c) ==
    CASE c = "0" -> 0 [] c = "1" -> 1 [] c = "2" -> 2 [] c = "3" -> 3
      [] c = "4" -> 4 [] c = "5" -> 5 [] c = "6" -> 6 [] c = "7" -> 7
      [] c = "8" -> 8 [] c = "9" -> 9 [] OTHER -> -1

RECURSIVE number(_)
number(s) ==
    IF s = <<>> THEN 0
    ELSE IF digit(s[Len(s)]) < 0 \/ number(SubSeq(s, 1, Len(s) - 1)) < 0 THEN -1
    ELSE 10 * number(SubSeq(s, 1, Len(s) - 1)) + digit(s[Len(s)])

days_in_month(year, month) ==
    IF month = 2
    THEN (IF year % 4 = 0 /\ (year % 100 # 0 \/ year % 400 = 0) THEN 29 ELSE 28)
    ELSE IF month \in {4, 6, 9, 11} THEN 30 ELSE 31

\* datetime.strptime(s, '%Y-%m-%d') does not raise.  _strptime matches
\* (?P<Y>\d\d\d\d)-(?P<m>1[0-2]|0[1-9]|[1-9])-(?P<d>3[0-1]|[1-2]\d|0[1-9]|[1-9]| [1-9])
\* at the start of s, taking the first alternative that fits, raises when
\* the match leaves characters over, and builds the date, which raises for
\* year 0 and for a day the month does not have
strptime_ok(s) ==
    LET at(i) == IF i <= Len(s) THEN s[i] ELSE ""
        m_len == IF \/ at(6) = "1" /\ at(7) \in {"0", "1", "2"}
                    \/ at(6) = "0" /\ digit(at(7)) >= 1
                 THEN 2
                 ELSE IF digit(at(6)) >= 1 THEN 1 ELSE 0
        d == 7 + m_len
        d_len == IF \/ at(d) = "3" /\ at(d + 1) \in {"0", "1"}
                    \/ at(d) \in {"1", "2"} /\ digit(at(d + 1)) >= 0
                    \/ at(d) = "0" /\ digit(at(d + 1)) >= 1
                 THEN 2
                 ELSE IF digit(at(d)) >= 1 THEN 1
                 ELSE IF at(d) = " " /\ digit(at(d + 1)) >= 1 THEN 2 ELSE 0
        year == number(SubSeq(s, 1, 4))
        month == number(SubSeq(s, 6, 5 + m_len))
        day == IF at(d) = " " THEN digit(at(d + 1))
               ELSE number(SubSeq(s, d, d + d_len - 1))
    IN  /\ \A i \in 1..4 : digit(at(i)) >= 0
        /\ at(5) = "-"
        /\ m_len > 0
        /\ at(6 + m_len) = "-"
        /\ d_len > 0
        /\ Len(s) = d + d_len - 1
        /\ year >= 1
        /\ day <= days_in_month(year, month)

\* str(date_str)[:10]
slice_10(s) == SubSeq(s, 1, IF Len(s) < 10 THEN Len(s) ELSE 10)

\* is_valid_date of check_rfstdtc_format
is_valid_date(date_str) ==
    IF date_str = None THEN FALSE
    ELSE strptime_ok(slice_10(date_str[1]))

\* create_dm_validator.check_rfstdtc_format
check_rfstdtc_format(d) ==
    IF "RFSTDTC" \notin df_columns(d) THEN raises(str_KeyError("RFSTDTC"))
    ELSE LET bad == [i \in 1..len_df(d) |-> ~is_valid_date(df_data(d, "RFSTDTC")[i])]
             invalid == rows_where(bad, 1)
         IN  returns(invalid = <<>>, invalid)

\* create_ae_validator
check_aeterm_not_null(d) == check_not_null(d, "AETERM")

check_severity_values(d) == check_isin(d, "AESEV", {"MILD", "MODERATE", "SEVERE"})

check_serious_flag(d) == check_isin(d, "AESER", {"Y", "N"})

\* ord(c) of the characters of a date string
ord(c) ==
    CASE c = "-" -> 45 [] c = "/" -> 47 [] c = ":" -> 58 [] c = "T" -> 84
      [] OTHER -> 48 + digit(c)

\* a < b of two Python strings
RECURSIVE str_less(_, _)
str_less(a, b) ==
    IF b = <<>> THEN FALSE
    ELSE IF a = <<>> THEN TRUE
    ELSE IF ord(Head(a)) # ord(Head(b)) THEN ord(Head(a)) < ord(Head(b))
    ELSE str_less(Tail(a), Tail(b))

\* create_ae_validator.check_date_logic: only where both dates exist
check_date_logic(d) ==
    IF "AESTDTC" \notin df_columns(d) THEN raises(str_KeyError("AESTDTC"))
    ELSE IF "AEENDTC" \notin df_columns(d) THEN raises(str_KeyError("AEENDTC"))
    ELSE LET st == df_data(d, "AESTDTC")
             en == df_data(d, "AEENDTC")
             bad == [i \in 1..len_df(d) |->
                        /\ st[i] # None
                        /\ en[i] # None
                        /\ str_less(en[i][1], st[i][1])]
             invalid == rows_where(bad, 1)
         IN  returns(invalid = <<>>, invalid)

\* create_vs_validator
check_vstestcd_not_null(d) == check_not_null(d, "VSTESTCD")

check_positive_values(d) ==
    IF "VSSTRESN" \notin df_columns(d) THEN raises(str_KeyError("VSSTRESN"))
    ELSE LET cells == df_data(d, "VSSTRESN")
             bad == [i \in 1..len_df(d) |-> cells[i] # None /\ cells[i][1] < 0]
             invalid == rows_where(bad, 1)
         IN  returns(invalid = <<>>, invalid)

\* the rows of one condition of check_vital_ranges
out_of_range(d, testcd, low, high) ==
    LET code == df_data(d, "VSTESTCD")
        value == df_data(d, "VSSTRESN")
    IN  rows_where([i \in 1..len_df(d) |->
                       /\ code[i] = Some(testcd)
                       /\ value[i] # None
                       /\ (value[i][1] < low \/ value[i][1] > high)], 1)

\* create_vs_validator.check_vital_ranges: pd.concat of the three conditions
check_vital_ranges(d) ==
    IF "VSTESTCD" \notin df_columns(d) THEN raises(str_KeyError("VSTESTCD"))
    ELSE IF "VSSTRESN" \notin df_columns(d) THEN raises(str_KeyError("VSSTRESN"))
    ELSE LET invalid == out_of_range(d, "HR", 20, 250)
                        \o out_of_range(d, "SYSBP", 50, 250)
                        \o out_of_range(d, "TEMP", 30, 45)
         IN  returns(invalid = <<>>, invalid)

\* create_lb_validator
check_lbtestcd_not_null(d) == check_not_null(d, "LBTESTCD")

\* only where LBNRIND exists; .str is taken of the filtered column
check_nrind_values(d) ==
    IF "LBNRIND" \notin df_columns(d) THEN raises(str_KeyError("LBNRIND"))
    ELSE IF df_dtype(d, "LBNRIND") # p_object THEN raises("Can only use .str accessor with string values!")
    ELSE LET cells == df_data(d, "LBNRIND")
             bad == [i \in 1..len_df(d) |->
                        /\ cells[i] # None
                        /\ upper(cells[i][1]) \notin {"LOW", "NORMAL", "HIGH", "ABNORMAL"}]
             invalid == rows_where(bad, 1)
         IN  returns(invalid = <<>>, invalid)

check_range_logic(d) ==
    IF "LBORNRLO" \notin df_columns(d) THEN raises(str_KeyError("LBORNRLO"))
    ELSE IF "LBORNRHI" \notin df_columns(d) THEN raises(str_KeyError("LBORNRHI"))
    ELSE LET lo == df_data(d, "LBORNRLO")
             hi == df_data(d, "LBORNRHI")
             bad == [i \in 1..len_df(d) |->
                        lo[i] # None /\ hi[i] # None /\ lo[i][1] >= hi[i][1]]
             invalid == rows_where(bad, 1)
         IN  returns(invalid = <<>>, invalid)

Funcs == {"check_usubjid_not_null", "check_age_range"}

\* rule["func"](df)
call(func, d) ==
    CASE func = "check_usubjid_not_null" -> check_usubjid_not_null(d)
      [] func = "check_age_range" -> check_age_range(d)
      [] func = "check_usubjid_unique" -> check_usubjid_unique(d)
      [] func = "check_sex_values" -> check_sex_values(d)
      [] func = "check_arm_populated" -> check_arm_populated(d)
      [] func = "check_rfstdtc_format" -> check_rfstdtc_format(d)
      [] func = "check_aeterm_not_null" -> check_aeterm_not_null(d)
      [] func = "check_severity_values" -> check_severity_values(d)
      [] func = "check_serious_flag" -> check_serious_flag(d)
      [] func = "check_date_logic" -> check_date_logic(d)
      [] func = "check_vstestcd_not_null" -> check_vstestcd_not_null(d)
      [] func = "check_positive_values" -> check_positive_values(d)
      [] func = "check_vital_ranges" -> check_vital_ranges(d)
      [] func = "check_lbtestcd_not_null" -> check_lbtestcd_not_null(d)
      [] func = "check_nrind_values" -> check_nrind_values(d)
      [] func = "check_range_logic" -> check_range_logic(d)

\* a percentage as the fraction num / den
Pct(num, den) == [num |-> num, den |-> den]

\* (records_failed / total_records * 100) if total_records > 0 else 0
failure_pct(records_failed, total_records) ==
    IF total_records > 0 THEN Pct(records_failed * 100, total_records) ELSE Pct(0, 1)

\* failure_percentage=100.0 of the except branch
failure_pct_on_error(total_records) == Pct(100, 1)

\* mutant: the except branch keeps the severity the rule was registered with
severity_as_registered(rule) == rule.severity

\* severity=ValidationSeverity.ERROR of the except branch
severity_on_error(rule) == "error"

\* the IDs of the failed records
failed_ids_of(d, out, id_column) ==
    IF out.failed_rows # <<>> /\ id_column \in df_columns(d)
    THEN [k \in 1..Len(out.failed_rows) |-> df_data(d, id_column)[out.failed_rows[k]]]
    ELSE <<>>

\* mutant: the except branch reports no failed record
run_rule_none_failed_on_error(rule, d, id_column) ==
    LET total_records == len_df(d)
        out == call(rule.func, d)
    IN  IF ~out.raised
        THEN [rule_name |-> rule.name,
              description |-> rule.description,
              severity |-> rule.severity,
              passed |-> out.passed,
              records_checked |-> total_records,
              records_failed |-> Len(out.failed_rows),
              failure_percentage |-> failure_pct(Len(out.failed_rows), total_records),
              failed_record_ids |-> failed_ids_of(d, out, id_column),
              details |-> {}]
        ELSE [rule_name |-> rule.name,
              description |-> rule.description,
              severity |-> severity_on_error(rule),
              passed |-> FALSE,
              records_checked |-> total_records,
              records_failed |-> 0,
              failure_percentage |-> failure_pct_on_error(total_records),
              failed_record_ids |-> <<>>,
              details |-> {<<"error", out.error>>}]

\* the body of the loop: the ValidationResult of one rule
run_rule(rule, d, id_column) ==
    LET total_records == len_df(d)
        out == call(rule.func, d)
    IN  IF ~out.raised
        THEN [rule_name |-> rule.name,
              description |-> rule.description,
              severity |-> rule.severity,
              passed |-> out.passed,
              records_checked |-> total_records,
              records_failed |-> Len(out.failed_rows),
              failure_percentage |-> failure_pct(Len(out.failed_rows), total_records),
              failed_record_ids |-> failed_ids_of(d, out, id_column),
              details |-> {}]
        ELSE [rule_name |-> rule.name,
              description |-> rule.description,
              severity |-> severity_on_error(rule),
              passed |-> FALSE,
              records_checked |-> total_records,
              records_failed |-> total_records,
              failure_percentage |-> failure_pct_on_error(total_records),
              failed_record_ids |-> <<>>,
              details |-> {<<"error", out.error>>}]

\* self.results after the loop "for rule in self.rules"
RECURSIVE run_rules(_, _, _)
run_rules(rs, d, id_column) ==
    IF rs = <<>> THEN <<>>
    ELSE <<run_rule(Head(rs), d, id_column)>> \o run_rules(Tail(rs), d, id_column)

\* mutant: "not r.passed" forgotten
has_errors_any(res) ==
    \E i \in 1..Len(res) : res[i].severity = "error"

has_errors(res) ==
    \E i \in 1..Len(res) : ~res[i].passed /\ res[i].severity = "error"

has_warnings(res) ==
    \E i \in 1..Len(res) : ~res[i].passed /\ res[i].severity = "warning"

\* mutant: every failed result, whatever its severity, keeps the status from PASSED
status_of_any_failure(res) ==
    IF has_errors(res) THEN "failed"
    ELSE IF \E i \in 1..Len(res) : ~res[i].passed THEN "passed_with_warnings"
    ELSE "passed"

\* Determine overall status
status_of(res) ==
    IF has_errors(res) THEN "failed"
    ELSE IF has_warnings(res) THEN "passed_with_warnings"
    ELSE "passed"

DataQualityReport(total_records, res) ==
    [domain |-> "DM",
     source_path |-> "",
     total_records |-> total_records,
     status |-> status_of(res),
     results |-> res]

-----------------------------------------------------------------------------
(* Inputs and operations of the validation engine *)

\* rules registered on one engine
MaxRules == 2
\* rows of a dataset handed to validate
MaxVRows == 1

RuleNames == {"R1", "R2"}

IdCells == {None, Some(1)}

AgeCells == {Some(30), Some(150)}

\* the datasets: USUBJID and AGE each present or missing, up to MaxVRows rows
VDatasets ==
    {DataFrame(n,
        (IF hasId THEN <<Column("USUBJID", p_object, ids)>> ELSE <<>>)
        \o (IF hasAge THEN <<Column("AGE", p_int64, ages)>> ELSE <<>>)) :
        <<n, hasId, hasAge, ids, ages>> \in
            {t \in (0..MaxVRows) \X BOOLEAN \X BOOLEAN
                    \X SeqsUpTo(IdCells, MaxVRows) \X SeqsUpTo(AgeCells, MaxVRows) :
                /\ Len(t[4]) = (IF t[2] THEN t[1] ELSE 0)
                /\ Len(t[5]) = (IF t[3] THEN t[1] ELSE 0)}}

InitContractIdle ==
    /\ contract = DataContract(<<>>, "backward")
    /\ df = DataFrame(0, <<>>)
    /\ result = <<>>

\* ClinicalDataValidator.__init__
InitValidator ==
    /\ rules = <<>>
    /\ results = <<>>
    /\ vdf = <<>>
    /\ report = <<>>
    /\ InitContractIdle
    /\ InitThreadsIdle
    /\ InitQueryIdle
    /\ InitTrackerIdle
    /\ InitHashIdle
    /\ InitLoadIdle
    /\ InitSerialIdle
    /\ InitIngestIdle

add_rule(name, description, validation_func, severity) ==
    /\ Len(rules) < MaxRules
    /\ rules' = Append(rules,
           [name |-> name, description |-> description,
            func |-> validation_func, severity |-> severity])
    /\ UNCHANGED <<results, vdf, report>>
    /\ UNCHANGED nonValidatorVars

\* mutant: "self.results = []" forgotten
validate_no_reset(d, id_column) ==
    /\ results' = results \o run_rules(rules, d, id_column)
    /\ report' = <<DataQualityReport(len_df(d), results')>>
    /\ vdf' = <<d>>
    /\ UNCHANGED rules
    /\ UNCHANGED nonValidatorVars

validate(d, id_column) ==
    /\ results' = run_rules(rules, d, id_column)
    /\ report' = <<DataQualityReport(len_df(d), results')>>
    /\ vdf' = <<d>>
    /\ UNCHANGED rules
    /\ UNCHANGED nonValidatorVars

\* the predicates and severities rules are registered with: the null check
\* as ERROR, the range check as WARNING or INFO
RuleChoices ==
    {c \in Funcs \X ValidationSeverity : c[1] = "check_age_range" <=> c[2] # "error"}

\* add_rule may be called at any time, also after a validate call
AddRule ==
    \E name \in RuleNames, choice \in RuleChoices :
        add_rule(name, "description", choice[1], choice[2])

Validate == \E d \in VDatasets : validate(d, "USUBJID")

NextValidator == AddRule \/ Validate

SpecValidator == InitValidator /\ [][NextValidator]_vars

-----------------------------------------------------------------------------
(* Claims about the validation engine (checked under SpecValidator) *)

Reported == report # <<>>

Failed(r, severity) ==
    \E res \in Range(r.results) : ~res.passed /\ res.severity = severity

\* C7: the status of a report is derived from its results alone: FAILED if
\* some result has passed = false and severity ERROR, otherwise
\* PASSED_WITH_WARNINGS if some result has passed = false and severity
\* WARNING, otherwise PASSED.
C7_StatusDerived ==
    Reported =>
        LET r == report[1]
        IN  r.status = (IF Failed(r, "error") THEN "failed"
                        ELSE IF Failed(r, "warning") THEN "passed_with_warnings"
                        ELSE "passed")

\* C7 witness: a report with a passed ERROR result and a failed WARNING
\* result has status PASSED_WITH_WARNINGS.
C7_Witness ==
    /\ Reported
    /\ \E res \in Range(report[1].results) : res.passed /\ res.severity = "error"
    /\ Failed(report[1], "warning")
    /\ report[1].status = "passed_with_warnings"

\* C8 as claimed: the status is PASSED if and only if every result of the
\* report has passed = true, rules of severity INFO included.
C8_PassedIffAllPassed ==
    Reported =>
        (report[1].status = "passed"
            <=> \A res \in Range(report[1].results) : res.passed)

\* C8 amended: the status is PASSED if and only if every result of severity
\* ERROR or WARNING has passed = true; a failed INFO result leaves it PASSED.
C8_PassedIffNoErrorOrWarningFailed ==
    Reported =>
        (report[1].status = "passed"
            <=> \A res \in Range(report[1].results) :
                    res.severity \in {"error", "warning"} => res.passed)

\* C8 witness: a failed INFO result in a report whose status is PASSED.
C8_Witness ==
    /\ Reported
    /\ Failed(report[1], "info")
    /\ report[1].status = "passed"

Raises(i) == call(rules[i].func, vdf[1]).raised

\* C9: a predicate that raises does not abort the run: its rule gets a result
\* with passed = false, severity ERROR whatever the rule's severity,
\* records_failed = total_records, failure_percentage = 100 and the error
\* text in details, and the rules after it are evaluated as usual.  add_rule
\* only appends, so the i-th result of a report is that of the i-th rule
\* also when rules were registered after the call; the property is stated
\* of every result the report has.
C9_RaisingRuleContained ==
    Reported =>
        LET r == report[1]
        IN  /\ Len(r.results) <= Len(rules)
            /\ \A i \in 1..Len(r.results) :
                Raises(i) =>
                    /\ ~r.results[i].passed
                    /\ r.results[i].severity = "error"
                    /\ r.results[i].records_failed = r.total_records
                    /\ r.results[i].failure_percentage.num
                           = 100 * r.results[i].failure_percentage.den
                    /\ r.results[i].details
                           = {<<"error", call(rules[i].func, vdf[1]).error>>}
                    /\ \A j \in (i + 1)..Len(r.results) :
                        ~Raises(j) =>
                            /\ r.results[j].severity = rules[j].severity
                            /\ r.results[j].passed = call(rules[j].func, vdf[1]).passed
                            /\ r.results[j].records_failed
                                   = Len(call(rules[j].func, vdf[1]).failed_rows)

\* C9 witness: the first rule, registered as WARNING, raises and gets an
\* ERROR result; the second rule is evaluated and finds a failed record.
C9_Witness ==
    /\ Reported
    /\ Len(rules) = 2
    /\ Raises(1)
    /\ rules[1].severity = "warning"
    /\ report[1].results[1].severity = "error"
    /\ ~Raises(2)
    /\ report[1].results[2].records_failed = 1

\* the report has one result per rule registered now, in order
OneResultPerRule ==
    Reported =>
        /\ Len(report[1].results) = Len(rules)
        /\ \A i \in 1..Len(rules) : report[1].results[i].rule_name = rules[i].name

\* C10: the results of a report hold exactly one result per registered rule,
\* the i-th carrying the name of the i-th registered rule, also when some
\* rules raise.  This is stated of the report as validate returns it: a rule
\* registered after the call is not in its report.
C10_OneResultPerRule ==
    [][rules' = rules => OneResultPerRule']_vars

\* C10 witness: two rules registered as R2 then R1, the first raising; the
\* report names R2 then R1.
C10_Witness ==
    /\ Reported
    /\ Len(rules) = 2
    /\ rules[1].name = "R2" /\ rules[2].name = "R1"
    /\ Raises(1)
    /\ Len(report[1].results) = 2
    /\ report[1].results[1].rule_name = "R2"
    /\ report[1].results[2].rule_name = "R1"

\* C11: every result whose records_checked is 0 has failure_percentage 0,
\* the results of rules whose predicate raises included.
C11_ZeroCheckedZeroPct ==
    Reported =>
        \A res \in Range(report[1].results) :
            res.records_checked = 0 => res.failure_percentage.num = 0

\* C12: add_rule rejects a name that is already registered, so the names of
\* the rules of an engine are pairwise distinct.
C12_RuleNamesDistinct ==
    \A i, j \in 1..Len(rules) : rules[i].name = rules[j].name => i = j

-----------------------------------------------------------------------------
(* Two threads calling validate on one engine.

   validate keeps its results in the attribute self.results of the engine:
   it binds the attribute to a new list, appends to whatever list the
   attribute is bound to when each rule has been evaluated, reads the
   attribute again for has_errors and for has_warnings, and hands the list
   the attribute is bound to at the end to the report.  A thread switch can
   fall between any two of these steps; evaluating a rule touches only the
   thread's own dataset and the registered rules. *)

\* the rules an engine holds when the threads start
ThreadRules ==
    {[name |-> f, description |-> "description", func |-> f, severity |-> "error"] :
        f \in Funcs}

\* the datasets the threads validate: one clean row, one bad row, and an
\* empty dataset without columns
ThreadDatasets ==
    {DataFrame(1, <<Column("USUBJID", p_object, <<Some(1)>>),
                    Column("AGE", p_int64, <<Some(30)>>)>>),
     DataFrame(1, <<Column("USUBJID", p_object, <<None>>),
                    Column("AGE", p_int64, <<Some(150)>>)>>),
     DataFrame(0, <<>>)}

\* __init__ and the add_rule calls are over; each thread is about to call
\* validate with a dataset of its own
InitThreads ==
    /\ rules \in {rs \in SeqsUpTo(ThreadRules, MaxRules) : rs # <<>>}
    /\ heap = <<<<>>>>
    /\ self_results = 1
    /\ pc = [t \in Threads |-> "start"]
    /\ \E d1, d2 \in ThreadDatasets :
        /\ d1 # d2
        /\ frame = [t \in Threads |->
                       [NoFrame EXCEPT !.df = <<IF t = "T1" THEN d1 ELSE d2>>]]
    /\ results = <<>>
    /\ vdf = <<>>
    /\ report = <<>>
    /\ InitContractIdle
    /\ InitQueryIdle
    /\ InitTrackerIdle
    /\ InitHashIdle
    /\ InitLoadIdle
    /\ InitSerialIdle
    /\ InitIngestIdle

\* self.results = []; total_records = len(df)
validate_reset(t) ==
    /\ pc[t] = "start"
    /\ heap' = Append(heap, <<>>)
    /\ self_results' = Len(heap) + 1
    /\ frame' = [frame EXCEPT ![t].total_records = len_df(frame[t].df[1]),
                              ![t].i = 1]
    /\ pc' = [pc EXCEPT ![t] = "loop"]
    /\ UNCHANGED rules
    /\ UNCHANGED nonThreadVars

\* one turn of "for rule in self.rules", ending in self.results.append(result)
validate_rule(t, id_column) ==
    /\ pc[t] = "loop"
    /\ frame[t].i <= Len(rules)
    /\ heap' = [heap EXCEPT ![self_results] =
                   Append(@, run_rule(rules[frame[t].i], frame[t].df[1], id_column))]
    /\ frame' = [frame EXCEPT ![t].i = @ + 1]
    /\ UNCHANGED <<self_results, pc, rules>>
    /\ UNCHANGED nonThreadVars

\* has_errors = any(... for r in self.results), reached when the loop is over
validate_has_errors(t) ==
    /\ pc[t] = "loop"
    /\ frame[t].i > Len(rules)
    /\ frame' = [frame EXCEPT ![t].has_errors = has_errors(heap[self_results])]
    /\ pc' = [pc EXCEPT ![t] = "warnings"]
    /\ UNCHANGED <<heap, self_results, rules>>
    /\ UNCHANGED nonThreadVars

\* has_warnings = any(... for r in self.results)
validate_has_warnings(t) ==
    /\ pc[t] = "warnings"
    /\ frame' = [frame EXCEPT ![t].has_warnings = has_warnings(heap[self_results])]
    /\ pc' = [pc EXCEPT ![t] = "return"]
    /\ UNCHANGED <<heap, self_results, rules>>
    /\ UNCHANGED nonThreadVars

\* the if/elif/else on has_errors and has_warnings
status_from(errors, warnings) ==
    IF errors THEN "failed"
    ELSE IF warnings THEN "passed_with_warnings"
    ELSE "passed"

\* return DataQualityReport(..., results=self.results): the report holds the
\* list object itself, here its place in heap
validate_return(t) ==
    /\ pc[t] = "return"
    /\ frame' = [frame EXCEPT ![t].report =
                    <<[domain |-> "DM",
                       source_path |-> "",
                       total_records |-> frame[t].total_records,
                       status |-> status_from(frame[t].has_errors, frame[t].has_warnings),
                       results |-> self_results]>>]
    /\ pc' = [pc EXCEPT ![t] = "done"]
    /\ UNCHANGED <<heap, self_results, rules>>
    /\ UNCHANGED nonThreadVars

ValidateReset == \E t \in Threads : validate_reset(t)

ValidateRule == \E t \in Threads : validate_rule(t, "USUBJID")

ValidateHasErrors == \E t \in Threads : validate_has_errors(t)

ValidateHasWarnings == \E t \in Threads : validate_has_warnings(t)

ValidateReturn == \E t \in Threads : validate_return(t)

NextThreads ==
    \/ ValidateReset
    \/ ValidateRule
    \/ ValidateHasErrors
    \/ ValidateHasWarnings
    \/ ValidateReturn

SpecThreads == InitThreads /\ [][NextThreads]_vars

-----------------------------------------------------------------------------
(* Claims about concurrent validate calls (checked under SpecThreads) *)

\* the results of the report a thread got back, as they stand now
ResultsOf(t) == heap[frame[t].report[1].results]

\* C13: when two threads call validate on the same engine with different
\* datasets, the report each call returns holds exactly one result per
\* registered rule, in registration order, computed from that call's own
\* dataset.
C13_ReportsIndependent ==
    \A t \in Threads :
        pc[t] = "done" =>
            ResultsOf(t) = run_rules(rules, frame[t].df[1], "USUBJID")

-----------------------------------------------------------------------------
(* Lineage query: LineageQuery over a batch of lineage event dictionaries *)

\* events of a batch
MaxEvents == 2

Locations == {"A", "B", "C"}

\* an asset dictionary, of which the query reads the location
Asset(location) == [location |-> location]

Assets(locations) == [k \in 1..Len(locations) |-> Asset(locations[k])]

\* the asset lists of an event: one asset, two assets at two locations, two
\* assets at the same location
AssetLists ==
    {Assets(<<l>>) : l \in Locations} \cup {Assets(<<"B", "C">>), Assets(<<"A", "A">>)}

\* a lineage event dictionary; event_id stands for the uuid of the event
LineageRecord(event_id, input_assets, output_assets) ==
    [event_id |-> event_id, input_assets |-> input_assets, output_assets |-> output_assets]

\* the batches: up to MaxEvents events with distinct event_id
Batches ==
    UNION {
        {[i \in 1..n |-> LineageRecord(i, shape[i][1], shape[i][2])] :
            shape \in [1..n -> AssetLists \X AssetLists]} :
        n \in 0..MaxEvents}

\* depth arguments of a query; the last one is the number of locations
Depths == {0, 1, Cardinality(Locations)}

\* dict.get(key, [])
get(dict, key) == IF key \in DOMAIN dict THEN dict[key] ELSE <<>>

\* the inner loop of _build_index: record appended to index[loc] for each of
\* its assets, a new key starting from the empty list
RECURSIVE index_assets(_, _, _)
index_assets(index, record, assets) ==
    IF assets = <<>> THEN index
    ELSE LET loc == Head(assets).location
             entry == get(index, loc)
             others == [l \in DOMAIN index \ {loc} |-> index[l]]
         IN  index_assets(others @@ (loc :> Append(entry, record)), record, Tail(assets))

\* the outer loop of _build_index for one of the two indexes
RECURSIVE index_records(_, _, _)
index_records(index, recs, side) ==
    IF recs = <<>> THEN index
    ELSE index_records(index_assets(index, Head(recs), Head(recs)[side]),
                       Tail(recs), side)

\* self.by_output / self.by_input after _build_index
_build_index(recs, side) == index_records(<<>>, recs, side)

\* the locations of the assets of a list of events, event by event
RECURSIVE asset_locations(_, _)
asset_locations(events, side) ==
    IF events = <<>> THEN <<>>
    ELSE [k \in 1..Len(Head(events)[side]) |-> Head(events)[side][k].location]
         \o asset_locations(Tail(events), side)

\* the two for loops at the end of a turn: what queue.append adds
appended(events, side, seen, next_depth) ==
    LET fresh == SelectSeq(asset_locations(events, side), LAMBDA l : l \notin seen)
    IN  [k \in 1..Len(fresh) |-> <<fresh[k], next_depth>>]

\* mutant: "current_depth > depth" forgotten
skip_visited_only(current_loc, current_depth, seen, depth) ==
    current_loc \in seen

\* mutant: "current_loc in visited" forgotten
skip_deep_only(current_loc, current_depth, seen, depth) ==
    current_depth > depth

\* if current_loc in visited or current_depth > depth: continue
skip(current_loc, current_depth, seen, depth) ==
    current_loc \in seen \/ current_depth > depth

\* mutant: the traversal follows the assets of the side it looks events up by
turn_same_side(index, side) ==
    /\ queue # <<>>
    /\ LET current_loc == Head(queue)[1]
           current_depth == Head(queue)[2]
           events == get(index, current_loc)
           side_of_index == IF side = "input_assets" THEN "output_assets"
                            ELSE "input_assets"
       IN  IF skip(current_loc, current_depth, visited, query.depth)
           THEN /\ queue' = Tail(queue)
                /\ UNCHANGED <<q_result, visited, expansions>>
           ELSE /\ visited' = visited \cup {current_loc}
                /\ q_result' = q_result \o events
                /\ queue' = Tail(queue)
                       \o appended(events, side_of_index, visited', current_depth + 1)
                /\ expansions' = Append(expansions, current_loc)

\* one turn of "while queue:", looking events up in index and following
\* their assets on side
turn(index, side) ==
    /\ queue # <<>>
    /\ LET current_loc == Head(queue)[1]
           current_depth == Head(queue)[2]
           events == get(index, current_loc)
       IN  IF skip(current_loc, current_depth, visited, query.depth)
           THEN /\ queue' = Tail(queue)
                /\ UNCHANGED <<q_result, visited, expansions>>
           ELSE /\ visited' = visited \cup {current_loc}
                /\ q_result' = q_result \o events
                /\ queue' = Tail(queue)
                       \o appended(events, side, visited', current_depth + 1)
                /\ expansions' = Append(expansions, current_loc)

\* LineageQuery(lineage_records) followed by the first three statements of
\* get_upstream or get_downstream
InitQuery ==
    /\ records \in Batches
    /\ by_output = _build_index(records, "output_assets")
    /\ by_input = _build_index(records, "input_assets")
    /\ query \in [name : {"get_upstream", "get_downstream"},
                 asset_location : Locations,
                 depth : Depths]
    /\ q_result = <<>>
    /\ visited = {}
    /\ queue = <<<<query.asset_location, 0>>>>
    /\ expansions = <<>>
    /\ q_pc = "loop"
    /\ first_answer = <<>>
    /\ InitContractIdle
    /\ InitValidatorIdle
    /\ InitThreadsIdle
    /\ InitTrackerIdle
    /\ InitHashIdle
    /\ InitLoadIdle
    /\ InitSerialIdle
    /\ InitIngestIdle

\* mutant: the turn takes the entry of the expanded location out of by_output
get_upstream_turn_consuming ==
    /\ q_pc = "loop"
    /\ query.name = "get_upstream"
    /\ turn(by_output, "input_assets")
    /\ by_output' = [l \in DOMAIN by_output \ visited' |-> by_output[l]]
    /\ UNCHANGED <<query, q_pc, records, by_input>>
    /\ UNCHANGED callerVars
    /\ UNCHANGED nonQueryVars

get_upstream_turn ==
    /\ q_pc = "loop"
    /\ query.name = "get_upstream"
    /\ turn(by_output, "input_assets")
    /\ UNCHANGED <<query, q_pc>>
    /\ UNCHANGED indexVars
    /\ UNCHANGED callerVars
    /\ UNCHANGED nonQueryVars

\* mutant: get_downstream steps to the input locations of the events it finds
get_downstream_turn_same_side ==
    /\ q_pc = "loop"
    /\ query.name = "get_downstream"
    /\ turn_same_side(by_input, "output_assets")
    /\ UNCHANGED <<query, q_pc>>
    /\ UNCHANGED indexVars
    /\ UNCHANGED callerVars
    /\ UNCHANGED nonQueryVars

get_downstream_turn ==
    /\ q_pc = "loop"
    /\ query.name = "get_downstream"
    /\ turn(by_input, "output_assets")
    /\ UNCHANGED <<query, q_pc>>
    /\ UNCHANGED indexVars
    /\ UNCHANGED callerVars
    /\ UNCHANGED nonQueryVars

\* "while queue:" of get_upstream is over: return result
get_upstream_return ==
    /\ q_pc = "loop"
    /\ query.name = "get_upstream"
    /\ queue = <<>>
    /\ q_pc' = "done"
    /\ UNCHANGED <<query, q_result, visited, queue, expansions>>
    /\ UNCHANGED indexVars
    /\ UNCHANGED callerVars
    /\ UNCHANGED nonQueryVars

\* "while queue:" of get_downstream is over: return result
get_downstream_return ==
    /\ q_pc = "loop"
    /\ query.name = "get_downstream"
    /\ queue = <<>>
    /\ q_pc' = "done"
    /\ UNCHANGED <<query, q_result, visited, queue, expansions>>
    /\ UNCHANGED indexVars
    /\ UNCHANGED callerVars
    /\ UNCHANGED nonQueryVars

NextQuery ==
    \/ get_upstream_turn
    \/ get_upstream_return
    \/ get_downstream_turn
    \/ get_downstream_return

SpecQuery == InitQuery /\ [][NextQuery]_vars

\* the query keeps running until it returns
SpecQueryFair == SpecQuery /\ WF_vars(NextQuery)

-----------------------------------------------------------------------------
(* Claims about lineage queries (checked under SpecQuery and SpecQueryFair) *)

Returned_q == q_pc = "done"

Upstream == query.name = "get_upstream"

\* the side of an event a query looks its location up on, and the side it
\* steps to
NearSide == IF Upstream THEN "output_assets" ELSE "input_assets"

FarSide == IF Upstream THEN "input_assets" ELSE "output_assets"

LocationsOf(record, side) ==
    {record[side][k].location : k \in 1..Len(record[side])}

\* the events of the batch with an asset on the near side at a location of S
EventsAt(S) ==
    {rec \in Range(records) : LocationsOf(rec, NearSide) \cap S # {}}

\* one hop from the locations of S
Hop(S) == S \cup UNION {LocationsOf(rec, FarSide) : rec \in EventsAt(S)}

\* the locations at most d hops from the seed
RECURSIVE Within(_)
Within(d) == IF d <= 0 THEN {query.asset_location} ELSE Hop(Within(d - 1))

\* every location reachable from the seed
RECURSIVE Closure(_)
Closure(S) == IF Hop(S) = S THEN S ELSE Closure(Hop(S))

Reachable == Closure({query.asset_location})

\* the batch E1: A -> B, E2: B -> C
Chain ==
    <<LineageRecord(1, Assets(<<"A">>), Assets(<<"B">>)),
      LineageRecord(2, Assets(<<"B">>), Assets(<<"C">>))>>

\* the batch E1: A -> B, E2: B -> A
Cycle ==
    <<LineageRecord(1, Assets(<<"A">>), Assets(<<"B">>)),
      LineageRecord(2, Assets(<<"B">>), Assets(<<"A">>))>>

\* C14: with max_depth at least the number of locations, get_upstream returns
\* exactly the events that have an output at the seed or at a location
\* reachable from it stepping from an event's output location to its input
\* locations, and no other event (get_downstream likewise with the sides
\* exchanged); on the batch E1: A -> B, E2: B -> C, get_upstream(C) returns
\* E2 then E1 and get_downstream(A) returns E1 then E2.
C14_ReachableEvents ==
    (Returned_q /\ query.depth >= Cardinality(Locations)) =>
        /\ Range(q_result) = EventsAt(Reachable)
        /\ (records = Chain /\ Upstream /\ query.asset_location = "C")
               => q_result = <<Chain[2], Chain[1]>>
        /\ (records = Chain /\ ~Upstream /\ query.asset_location = "A")
               => q_result = <<Chain[1], Chain[2]>>

\* C14 witness: get_upstream(C) on the chain has returned E2 then E1.
C14_Witness ==
    /\ Returned_q
    /\ records = Chain
    /\ Upstream
    /\ query.asset_location = "C"
    /\ query.depth >= Cardinality(Locations)
    /\ q_result = <<Chain[2], Chain[1]>>

\* C15: no event appears more than once in the list a query returns, for
\* every batch (cycles, events with several input or output assets, several
\* assets at one location) and every depth.
C15_NoEventTwice ==
    Returned_q =>
        \A i, j \in 1..Len(q_result) :
            q_result[i].event_id = q_result[j].event_id => i = j

\* C16: every query terminates, whatever the batch, the seed and the depth,
\* cycles and self-loops included, and expands no location more than once.
C16_Terminates ==
    /\ <>Returned_q
    /\ [](\A i, j \in 1..Len(expansions) : expansions[i] = expansions[j] => i = j)

\* C16 witness: a query on the cycle E1: A -> B, E2: B -> A has returned
\* after expanding A and B.
C16_Witness ==
    /\ Returned_q
    /\ records = Cycle
    /\ Range(expansions) = {"A", "B"}

\* C17: a query with max_depth = d returns only events that produce (for
\* get_downstream: consume) a location at most d hops from the seed; with
\* max_depth = 0 the result is exactly by_output[seed] (by_input[seed]).
C17_DepthBound ==
    /\ Range(q_result) \subseteq EventsAt(Within(query.depth))
    /\ (Returned_q /\ query.depth = 0) =>
            q_result = get(IF Upstream THEN by_output ELSE by_input,
                           query.asset_location)

\* C17 witness: get_upstream(C, 1) on the chain has returned E2 and E1, and
\* left out nothing within one hop, while A, two hops away, was not expanded.
C17_Witness ==
    /\ Returned_q
    /\ records = Chain
    /\ Upstream
    /\ query.asset_location = "C"
    /\ query.depth = 1
    /\ q_result = <<Chain[2], Chain[1]>>
    /\ expansions = <<"C", "B">>

-----------------------------------------------------------------------------
(* Lineage tracker: LineageTracker and the LineageEvent it builds.

   input_assets and output_assets are Python lists: the tracker holds a
   reference to a list object, and whoever is handed that reference sees
   every later append.  asset_lists maps each list object to its contents;
   the attributes hold the object's name. *)

\* assets registered on one side of a tracker
MaxTracked == 2

\* DataAsset: the fields the tracker reads are location and record_count
DataAsset(location, record_count) ==
    [location |-> location, record_count |-> record_count]

\* assets without a record count, with a count of zero and with a count
TrackerAssets ==
    {DataAsset("A", None), DataAsset("B", Some(0)), DataAsset("C", Some(5))}

\* parameters arguments of set_transformation: None, or a dictionary as a
\* set of pairs
TrackerParameters == {None, Some({}), Some({<<"study", "S1">>})}

\* "if asset.record_count:" is true for a count other than None and 0
truthy_count(asset) == asset.record_count # None /\ asset.record_count[1] # 0

\* "if parameters:" is true for a dictionary that is not empty
truthy_parameters(parameters) == parameters # None /\ parameters[1] # {}

\* LineageTracker.__init__
InitTracker ==
    /\ tracker = [event_id |-> "uuid",
                  event_type |-> "transformation",
                  triggered_by |-> "glue:bronze_to_silver",
                  start_time |-> 0,
                  input_assets |-> "input_assets",
                  output_assets |-> "output_assets",
                  transformation_logic |-> None,
                  parameters |-> {},
                  validation_status |-> None,
                  records_in |-> 0,
                  records_out |-> 0,
                  records_rejected |-> 0,
                  execution_id |-> None]
    /\ asset_lists = [l \in {"input_assets", "output_assets"} |-> <<>>]
    /\ event = <<>>
    /\ InitContractIdle
    /\ InitValidatorIdle
    /\ InitThreadsIdle
    /\ InitQueryIdle
    /\ InitHashIdle
    /\ InitLoadIdle
    /\ InitSerialIdle
    /\ InitIngestIdle

\* mutant: the record count of an input is added to records_out
add_input_counts_out(asset) ==
    /\ Len(asset_lists[tracker.input_assets]) < MaxTracked
    /\ asset_lists' = [asset_lists EXCEPT ![tracker.input_assets] = Append(@, asset)]
    /\ tracker' = IF truthy_count(asset)
                  THEN [tracker EXCEPT !.records_out = @ + asset.record_count[1]]
                  ELSE tracker
    /\ UNCHANGED event
    /\ UNCHANGED nonTrackerVars

add_input(asset) ==
    /\ Len(asset_lists[tracker.input_assets]) < MaxTracked
    /\ asset_lists' = [asset_lists EXCEPT ![tracker.input_assets] = Append(@, asset)]
    /\ tracker' = IF truthy_count(asset)
                  THEN [tracker EXCEPT !.records_in = @ + asset.record_count[1]]
                  ELSE tracker
    /\ UNCHANGED event
    /\ UNCHANGED nonTrackerVars

add_output(asset) ==
    /\ Len(asset_lists[tracker.output_assets]) < MaxTracked
    /\ asset_lists' = [asset_lists EXCEPT ![tracker.output_assets] = Append(@, asset)]
    /\ tracker' = IF truthy_count(asset)
                  THEN [tracker EXCEPT !.records_out = @ + asset.record_count[1]]
                  ELSE tracker
    /\ UNCHANGED event
    /\ UNCHANGED nonTrackerVars

set_transformation(description, parameters) ==
    /\ tracker' = [tracker EXCEPT
                      !.transformation_logic = Some(description),
                      !.parameters = IF truthy_parameters(parameters)
                                     THEN parameters[1] ELSE @]
    /\ UNCHANGED <<asset_lists, event>>
    /\ UNCHANGED nonTrackerVars

set_validation_status(status, rejected_count) ==
    /\ tracker' = [tracker EXCEPT !.validation_status = Some(status),
                                  !.records_rejected = rejected_count]
    /\ UNCHANGED <<asset_lists, event>>
    /\ UNCHANGED nonTrackerVars

set_execution_id(execution_id) ==
    /\ tracker' = [tracker EXCEPT !.execution_id = Some(execution_id)]
    /\ UNCHANGED <<asset_lists, event>>
    /\ UNCHANGED nonTrackerVars

\* the LineageEvent gets the tracker's list objects, not copies of them;
\* duration is the time since start_time
build_event(duration) ==
    /\ event' = <<[event_id |-> tracker.event_id,
                   event_type |-> tracker.event_type,
                   timestamp |-> tracker.start_time,
                   triggered_by |-> tracker.triggered_by,
                   input_assets |-> tracker.input_assets,
                   output_assets |-> tracker.output_assets,
                   transformation_logic |-> tracker.transformation_logic,
                   parameters |-> tracker.parameters,
                   validation_status |-> tracker.validation_status,
                   records_in |-> tracker.records_in,
                   records_out |-> tracker.records_out,
                   records_rejected |-> tracker.records_rejected,
                   execution_id |-> tracker.execution_id,
                   duration_seconds |-> duration]>>
    /\ UNCHANGED <<tracker, asset_lists>>
    /\ UNCHANGED nonTrackerVars

AddInput == \E asset \in TrackerAssets : add_input(asset)

AddOutput == \E asset \in TrackerAssets : add_output(asset)

SetTransformation ==
    \E parameters \in TrackerParameters :
        set_transformation("CDISC standardization", parameters)

SetValidationStatus == set_validation_status("passed", 1)

SetExecutionId == set_execution_id("jr_1")

BuildEvent == \E duration \in {1, 2} : build_event(duration)

NextTracker ==
    \/ AddInput
    \/ AddOutput
    \/ SetTransformation
    \/ SetValidationStatus
    \/ SetExecutionId
    \/ BuildEvent

SpecTracker == InitTracker /\ [][NextTracker]_vars

-----------------------------------------------------------------------------
(* Claims about the lineage tracker (checked under SpecTracker) *)

Built == event # <<>>

\* a call that changes what the tracker has recorded
Mutation ==
    AddInput \/ AddOutput \/ SetTransformation \/ SetValidationStatus \/ SetExecutionId

\* the fields of the event last returned, its two lists read through
EventFields ==
    [event[1] EXCEPT !.input_assets = asset_lists[@],
                     !.output_assets = asset_lists[@]]

RECURSIVE SumCounts(_)
SumCounts(assets) ==
    IF assets = <<>> THEN 0
    ELSE (IF Head(assets).record_count = None THEN 0 ELSE Head(assets).record_count[1])
         + SumCounts(Tail(assets))

InputAssets == asset_lists[tracker.input_assets]

OutputAssets == asset_lists[tracker.output_assets]

\* C18: a LineageEvent returned by build_event is immutable: no later
\* add_input, add_output, set_transformation, set_validation_status or
\* set_execution_id on the tracker changes any field of that event.
C18_EventImmutable ==
    [][(Built /\ Mutation) => EventFields' = EventFields]_vars

\* C19: the tracker is single-use: once build_event has been called, every
\* later mutation is rejected and leaves the tracker's state unchanged.
C19_FinalizedRejectsMutation ==
    [][(Built /\ Mutation) => UNCHANGED <<tracker, asset_lists>>]_vars

\* C20: after any sequence of add_input and add_output calls, records_in
\* (records_out) is the sum of record_count over the input (output) assets
\* that carry one; add_input appends its asset to input_assets and leaves the
\* output side unchanged, and add_output likewise for the other side;
\* build_event copies these values into the event.
C20_AssetsAndCounts ==
    /\ [](/\ tracker.records_in = SumCounts(InputAssets)
          /\ tracker.records_out = SumCounts(OutputAssets))
    /\ [][/\ \A asset \in TrackerAssets :
                add_input(asset) =>
                    /\ InputAssets' = Append(InputAssets, asset)
                    /\ OutputAssets' = OutputAssets
                    /\ tracker'.records_out = tracker.records_out
          /\ \A asset \in TrackerAssets :
                add_output(asset) =>
                    /\ OutputAssets' = Append(OutputAssets, asset)
                    /\ InputAssets' = InputAssets
                    /\ tracker'.records_in = tracker.records_in
          /\ BuildEvent =>
                /\ EventFields'.input_assets = InputAssets
                /\ EventFields'.output_assets = OutputAssets
                /\ EventFields'.records_in = SumCounts(InputAssets)
                /\ EventFields'.records_out = SumCounts(OutputAssets)]_vars

\* C20 witness: inputs registered as C (5 records) then A (no count), one
\* output B (count 0), and the event built from them.
C20_Witness ==
    /\ InputAssets = <<DataAsset("C", Some(5)), DataAsset("A", None)>>
    /\ OutputAssets = <<DataAsset("B", Some(0))>>
    /\ tracker.records_in = 5
    /\ tracker.records_out = 0
    /\ Built
    /\ event[1].records_in = 5
    /\ EventFields.input_assets = InputAssets

-----------------------------------------------------------------------------
(* Several queries, one after the other, on one LineageQuery *)

\* the batch E1: A -> B and C, E2: B and C -> A
Fan ==
    <<LineageRecord(1, Assets(<<"A">>), Assets(<<"B", "C">>)),
      LineageRecord(2, Assets(<<"B", "C">>), Assets(<<"A">>))>>

\* the batches the repeated queries run on
RequeryBatches == {Chain, Cycle, Fan}

\* LineageQuery(lineage_records) followed by the start of the first query
InitRequery ==
    /\ records \in RequeryBatches
    /\ by_output = _build_index(records, "output_assets")
    /\ by_input = _build_index(records, "input_assets")
    /\ query \in [name : {"get_upstream", "get_downstream"},
                  asset_location : Locations,
                  depth : Depths]
    /\ q_result = <<>>
    /\ visited = {}
    /\ queue = <<<<query.asset_location, 0>>>>
    /\ expansions = <<>>
    /\ q_pc = "loop"
    /\ first_answer = <<>>
    /\ InitContractIdle
    /\ InitValidatorIdle
    /\ InitThreadsIdle
    /\ InitTrackerIdle
    /\ InitHashIdle
    /\ InitLoadIdle
    /\ InitSerialIdle
    /\ InitIngestIdle

\* the caller keeps the list the query returned and calls get_upstream or
\* get_downstream again on the same LineageQuery: result, visited and queue
\* are new objects of the new call
next_query(name, asset_location, depth) ==
    /\ q_pc = "done"
    /\ first_answer' = IF first_answer = <<>>
                       THEN <<[query |-> query, result |-> q_result]>>
                       ELSE first_answer
    /\ query' = [name |-> name, asset_location |-> asset_location, depth |-> depth]
    /\ q_result' = <<>>
    /\ visited' = {}
    /\ queue' = <<<<asset_location, 0>>>>
    /\ expansions' = <<>>
    /\ q_pc' = "loop"
    /\ UNCHANGED indexVars
    /\ UNCHANGED nonQueryVars

NextCall ==
    \E name \in {"get_upstream", "get_downstream"},
       asset_location \in Locations, depth \in Depths :
        next_query(name, asset_location, depth)

NextRequery ==
    \/ get_upstream_turn
    \/ get_upstream_return
    \/ get_downstream_turn
    \/ get_downstream_return
    \/ NextCall

SpecRequery == InitRequery /\ [][NextRequery]_vars

\* C21: the index is read-only once built: the queries leave records,
\* by_input and by_output unchanged, so a query repeated after any other
\* queries on the same index returns the list it returned the first time.
C21_IndexReadOnly ==
    /\ [][UNCHANGED <<records, by_input, by_output>>]_vars
    /\ []((Returned_q /\ first_answer # <<>> /\ first_answer[1].query = query)
            => q_result = first_answer[1].result)

\* C21 witness: get_upstream(A) on the fan was the first query answered, and
\* the same query, asked again later on the same index, has returned the
\* same three events.
C21_Witness ==
    /\ Returned_q
    /\ records = Fan
    /\ first_answer # <<>>
    /\ first_answer[1].query = query
    /\ Upstream
    /\ query.asset_location = "A"
    /\ query.depth = Cardinality(Locations)
    /\ q_result = <<Fan[2], Fan[1], Fan[1]>>
    /\ by_output = _build_index(Fan, "output_assets")

-----------------------------------------------------------------------------
(* Further claims about the contract engine (checked under SpecContract) *)

ColumnOf(col) ==
    contract.columns[CHOOSE i \in 1..Len(contract.columns) :
        contract.columns[i].name = col]

\* the rows i of a column whose cell is not null
NonNull(data) == {i \in 1..Len(data) : data[i] # None}

\* the checks the claim has applied to a column, in order, each with the
\* number of rows failing it
ChecksApplied(k, data) ==
    (IF ~k.nullable
        THEN <<<<"not_null", Cardinality((1..Len(data)) \ NonNull(data))>>>> ELSE <<>>)
    \o (IF k.unique
        THEN <<<<"unique", Cardinality({i \in 1..Len(data) :
                                \E j \in 1..(i - 1) : data[j] = data[i]})>>>> ELSE <<>>)
    \o (IF k.allowed_values # <<>>
        THEN <<<<"allowed_values", Cardinality({i \in NonNull(data) :
                                \A a \in 1..Len(k.allowed_values) :
                                    k.allowed_values[a] # data[i][1]})>>>> ELSE <<>>)
    \o (IF k.min_value # None
        THEN <<<<"min_value", Cardinality({i \in NonNull(data) :
                                data[i][1] < k.min_value[1]})>>>> ELSE <<>>)
    \o (IF k.max_value # None
        THEN <<<<"max_value", Cardinality({i \in NonNull(data) :
                                data[i][1] > k.max_value[1]})>>>> ELSE <<>>)

RECURSIVE SumOver(_, _)
SumOver(f, S) ==
    IF S = {} THEN 0
    ELSE LET x == CHOOSE x \in S : TRUE IN f[x] + SumOver(f, S \ {x})

\* C22: validate_values checks only the declared columns present in the
\* dataset; to each it applies not-null (if nullable = false), uniqueness (if
\* unique = true), allowed values (if the allow-list is not empty, nulls
\* exempt), minimum and maximum, in that order; the column's failed_count is
\* the sum of the failed counts of the checks applied, and failed_records of
\* the result is the sum of the columns' failed_count.
C22_ValueChecks ==
    Returned =>
        LET r == result[1]
            vv == r.value_validation
        IN  /\ DOMAIN vv = ContractNames \cap df_columns(df)
            /\ \A col \in DOMAIN vv :
                LET applied == ChecksApplied(ColumnOf(col), df_data(df, col))
                IN  /\ [i \in 1..Len(vv[col].checks) |->
                            <<vv[col].checks[i].check, vv[col].checks[i].failed_count>>]
                           = applied
                    /\ \A i \in 1..Len(vv[col].checks) :
                            vv[col].checks[i].passed <=> vv[col].checks[i].failed_count = 0
                    /\ vv[col].failed_count
                           = SumSeq([i \in 1..Len(applied) |-> applied[i][2]])
            /\ r.failed_records = SumOver([col \in DOMAIN vv |-> vv[col].failed_count],
                                          DOMAIN vv)

\* C22 witness: a column with all five checks applied whose rows fail
\* several checks each, so that its failed_count exceeds the number of rows.
C22_Witness ==
    /\ Returned
    /\ \E col \in DOMAIN result[1].value_validation :
        /\ result[1].value_validation[col].failed_count > result[1].total_records
        /\ Len(result[1].value_validation[col].checks) = 5
    /\ result[1].failed_records > result[1].total_records
    /\ result[1].total_records > 0

-----------------------------------------------------------------------------
(* Schema hash: DataContract.get_schema_hash *)

\* the columns a hashed contract is made of
HashColumns ==
    {ColumnContract(name, dtype, nullable, FALSE, <<>>, None, None) :
        name \in {"A", "B"}, dtype \in {s_string, s_int64}, nullable \in BOOLEAN}

\* contracts of up to two columns with distinct names, in every order
HashContracts ==
    {DataContract(columns, "backward") :
        columns \in {<<>>} \cup {<<c>> : c \in HashColumns}
                   \cup {<<c1, c2>> : <<c1, c2>> \in
                            {p \in HashColumns \X HashColumns : p[1].name # p[2].name}}}

\* json.dumps([(c.name, c.dtype, c.nullable) for c in self.columns],
\* sort_keys=True): the JSON array of the triples in the order of
\* self.columns; sort_keys orders the keys of dictionaries, and there is none
schema_str_of(c) ==
    [i \in 1..Len(c.columns) |->
        <<c.columns[i].name, c.columns[i].dtype, c.columns[i].nullable>>]

\* hashlib.md5(schema_str.encode()).hexdigest()[:8], as md5 gives it for the
\* text json.dumps produces from each array
md5_hexdigest_8(schema_str) ==
    CASE
         schema_str = <<>>
            -> "d7517139"
      [] schema_str = <<<<"A", s_string, TRUE>>>>
            -> "f89f9367"
      [] schema_str = <<<<"A", s_string, FALSE>>>>
            -> "43bfd099"
      [] schema_str = <<<<"A", s_int64, TRUE>>>>
            -> "f64f1f7a"
      [] schema_str = <<<<"A", s_int64, FALSE>>>>
            -> "eb6dbc5f"
      [] schema_str = <<<<"B", s_string, TRUE>>>>
            -> "045f51bc"
      [] schema_str = <<<<"B", s_string, FALSE>>>>
            -> "7462eae2"
      [] schema_str = <<<<"B", s_int64, TRUE>>>>
            -> "ab6cbbfa"
      [] schema_str = <<<<"B", s_int64, FALSE>>>>
            -> "4af97a26"
      [] schema_str = <<<<"A", s_string, TRUE>>, <<"B", s_string, TRUE>>>>
            -> "bde8ec87"
      [] schema_str = <<<<"A", s_string, TRUE>>, <<"B", s_string, FALSE>>>>
            -> "893e1d20"
      [] schema_str = <<<<"A", s_string, TRUE>>, <<"B", s_int64, TRUE>>>>
            -> "50d963f9"
      [] schema_str = <<<<"A", s_string, TRUE>>, <<"B", s_int64, FALSE>>>>
            -> "afc14164"
      [] schema_str = <<<<"A", s_string, FALSE>>, <<"B", s_string, TRUE>>>>
            -> "bcadb1d8"
      [] schema_str = <<<<"A", s_string, FALSE>>, <<"B", s_string, FALSE>>>>
            -> "f7eeb5cf"
      [] schema_str = <<<<"A", s_string, FALSE>>, <<"B", s_int64, TRUE>>>>
            -> "2c847696"
      [] schema_str = <<<<"A", s_string, FALSE>>, <<"B", s_int64, FALSE>>>>
            -> "12b5e116"
      [] schema_str = <<<<"A", s_int64, TRUE>>, <<"B", s_string, TRUE>>>>
            -> "e160946b"
      [] schema_str = <<<<"A", s_int64, TRUE>>, <<"B", s_string, FALSE>>>>
            -> "a4d00ddd"
      [] schema_str = <<<<"A", s_int64, TRUE>>, <<"B", s_int64, TRUE>>>>
            -> "b7714a3b"
      [] schema_str = <<<<"A", s_int64, TRUE>>, <<"B", s_int64, FALSE>>>>
            -> "3dc6270f"
      [] schema_str = <<<<"A", s_int64, FALSE>>, <<"B", s_string, TRUE>>>>
            -> "2ea2518c"
      [] schema_str = <<<<"A", s_int64, FALSE>>, <<"B", s_string, FALSE>>>>
            -> "3664c96e"
      [] schema_str = <<<<"A", s_int64, FALSE>>, <<"B", s_int64, TRUE>>>>
            -> "064b5678"
      [] schema_str = <<<<"A", s_int64, FALSE>>, <<"B", s_int64, FALSE>>>>
            -> "b4b58529"
      [] schema_str = <<<<"B", s_string, TRUE>>, <<"A", s_string, TRUE>>>>
            -> "74f10dab"
      [] schema_str = <<<<"B", s_string, TRUE>>, <<"A", s_string, FALSE>>>>
            -> "accc2350"
      [] schema_str = <<<<"B", s_string, TRUE>>, <<"A", s_int64, TRUE>>>>
            -> "3cb16641"
      [] schema_str = <<<<"B", s_string, TRUE>>, <<"A", s_int64, FALSE>>>>
            -> "4381d0d8"
      [] schema_str = <<<<"B", s_string, FALSE>>, <<"A", s_string, TRUE>>>>
            -> "def598c1"
      [] schema_str = <<<<"B", s_string, FALSE>>, <<"A", s_string, FALSE>>>>
            -> "f1f6a1e9"
      [] schema_str = <<<<"B", s_string, FALSE>>, <<"A", s_int64, TRUE>>>>
            -> "6c7ffbfa"
      [] schema_str = <<<<"B", s_string, FALSE>>, <<"A", s_int64, FALSE>>>>
            -> "8456b84c"
      [] schema_str = <<<<"B", s_int64, TRUE>>, <<"A", s_string, TRUE>>>>
            -> "cf6170a4"
      [] schema_str = <<<<"B", s_int64, TRUE>>, <<"A", s_string, FALSE>>>>
            -> "b3feb4f1"
      [] schema_str = <<<<"B", s_int64, TRUE>>, <<"A", s_int64, TRUE>>>>
            -> "1953033d"
      [] schema_str = <<<<"B", s_int64, TRUE>>, <<"A", s_int64, FALSE>>>>
            -> "87ba13c4"
      [] schema_str = <<<<"B", s_int64, FALSE>>, <<"A", s_string, TRUE>>>>
            -> "3fdf76ea"
      [] schema_str = <<<<"B", s_int64, FALSE>>, <<"A", s_string, FALSE>>>>
            -> "64c66c12"
      [] schema_str = <<<<"B", s_int64, FALSE>>, <<"A", s_int64, TRUE>>>>
            -> "c6b806d7"
      [] schema_str = <<<<"B", s_int64, FALSE>>, <<"A", s_int64, FALSE>>>>
            -> "9b45599c"

get_schema_hash(c) == md5_hexdigest_8(schema_str_of(c))

InitHash ==
    /\ contract \in HashContracts
    /\ other_contract \in HashContracts
    /\ schema_hashes = <<>>
    /\ df = DataFrame(0, <<>>)
    /\ result = <<>>
    /\ InitValidatorIdle
    /\ InitThreadsIdle
    /\ InitQueryIdle
    /\ InitTrackerIdle
    /\ InitLoadIdle
    /\ InitSerialIdle
    /\ InitIngestIdle

\* contract.get_schema_hash() and other_contract.get_schema_hash()
GetSchemaHash ==
    /\ schema_hashes = <<>>
    /\ schema_hashes' = <<get_schema_hash(contract), get_schema_hash(other_contract)>>
    /\ UNCHANGED <<contract, other_contract>>
    /\ UNCHANGED nonHashVars

NextHash == GetSchemaHash

SpecHash == InitHash /\ [][NextHash]_vars

\* the (name, type, nullable) triples of a contract, as a set
Triples(c) == Range(schema_str_of(c))

\* C23: the schema hash is a function of the set of (name, type, nullable)
\* triples taken sorted by name: two contracts that declare the same triples
\* in a different column order have the same schema hash, and contracts that
\* differ in a column's name, type or nullability give the hash different
\* inputs.
C23_HashOfSortedTriples ==
    schema_hashes # <<>> =>
        /\ Triples(contract) = Triples(other_contract)
               => schema_hashes[1] = schema_hashes[2]
        /\ Triples(contract) # Triples(other_contract)
               => schema_str_of(contract) # schema_str_of(other_contract)

-----------------------------------------------------------------------------
(* Loading a contract: DataContract.load, then validate_against_contract *)

\* a DataContract with a primary key
KeyedDataContract(columns, mode, primary_key) ==
    [DataContract(columns, mode) EXCEPT !.primary_key = primary_key]

\* the JSON documents a contract is loaded from: the compatibility mode is a
\* string, valid or not, and the primary key names declared columns or not
ContractFiles ==
    [columns : {<<>>,
                <<WithConstraints("A", s_int64, Required)>>,
                <<WithConstraints("A", s_int64, Required),
                  WithConstraints("B", s_int64, Lenient)>>},
     compatibility_mode : CompatibilityMode \cup {"strict"},
     primary_key : {<<>>, <<"A">>, <<"A", "X">>}]

\* the datasets validated against the loaded contract
LoadDatasets ==
    {DataFrame(0, <<>>),
     DataFrame(1, <<Column("A", p_int64, <<Some(1)>>)>>),
     DataFrame(1, <<Column("A", p_int64, <<Some(1)>>),
                    Column("B", p_int64, <<Some(1)>>)>>)}

\* CompatibilityMode(data["compatibility_mode"]) raises ValueError for a
\* string that is no value of the enumeration
load_raises(data) == data.compatibility_mode \notin CompatibilityMode

\* cls(**data): the dataclass constructor stores the fields as they are
load(data) ==
    KeyedDataContract(data.columns, data.compatibility_mode, data.primary_key)

\* DataContract.to_dict: the member of CompatibilityMode is written as its
\* value, the primary key and the columns as they are
DataContract_to_dict(c) ==
    [columns |-> c.columns,
     compatibility_mode |-> c.compatibility_mode,
     primary_key |-> c.primary_key]

\* the document save leaves on disk: json.dump(self.to_dict(), f, indent=2)
save(c) == DataContract_to_dict(c)

\* the contracts a program builds and saves: the constructor checks nothing,
\* the mode is a member of CompatibilityMode
SavedContracts ==
    {KeyedDataContract(data.columns, data.compatibility_mode, data.primary_key) :
        data \in {f \in ContractFiles : ~load_raises(f)}}

InitLoad ==
    /\ contract_file \in ContractFiles
    /\ load_outcome = "none"
    /\ InitContractIdle
    /\ InitValidatorIdle
    /\ InitThreadsIdle
    /\ InitQueryIdle
    /\ InitTrackerIdle
    /\ InitHashIdle
    /\ InitSerialIdle
    /\ InitIngestIdle

\* contract = DataContract.load(filepath): the document on disk now
Load ==
    /\ IF load_raises(contract_file)
       THEN /\ load_outcome' = "raised"
            /\ UNCHANGED contract
       ELSE /\ load_outcome' = "loaded"
            /\ contract' = load(contract_file)
    /\ UNCHANGED <<df, result, contract_file>>
    /\ UNCHANGED nonLoadVars

\* DataContract(...).save(filepath): json.dump(self.to_dict(), f) rewrites
\* the document; the contract that load returned earlier is not touched
Save ==
    /\ \E c \in SavedContracts : contract_file' = save(c)
    /\ UNCHANGED <<contract, df, result, load_outcome>>
    /\ UNCHANGED nonLoadVars

\* result = validate_against_contract(df, contract) with the contract the
\* latest load returned
ValidateLoaded ==
    /\ load_outcome = "loaded"
    /\ \E d \in LoadDatasets :
        /\ df' = d
        /\ \E r \in validate_against_contract(d, contract) : result' = <<r>>
    /\ UNCHANGED <<contract, contract_file, load_outcome>>
    /\ UNCHANGED nonLoadVars

NextLoad == Load \/ Save \/ ValidateLoaded

SpecLoad == InitLoad /\ [][NextLoad]_vars

\* C24: a contract whose primary_key names a column that is not in columns
\* is rejected when it is created or loaded, so every contract that reaches
\* validate_against_contract has all its primary-key columns declared.
C24_PrimaryKeyDeclared ==
    /\ load_outcome = "loaded" => Range(contract.primary_key) \subseteq ContractNames
    /\ Returned => Range(contract.primary_key) \subseteq ContractNames

-----------------------------------------------------------------------------
(* Serialization: the to_dict methods of the reports and of LineageEvent *)

\* a member of a Python Enum, which holds its value
Member(value) == [enum_value |-> value]

\* member.value
value_of(member) == member.enum_value

\* "[:100]  # Limit for storage" of ValidationResult.to_dict
StorageLimit == 100

\* the list 1, 2, ..., n
UpTo(n) == [i \in 1..n |-> i]

\* lists of record identifiers: none, one, as many as are stored, and two
\* lists of one more than that which differ in their last identifier
IdLists ==
    {<<>>, UpTo(1), UpTo(StorageLimit), UpTo(StorageLimit + 1),
     UpTo(StorageLimit) \o <<StorageLimit + 2>>}

\* lst[:n]
slice_to(lst, n) == SubSeq(lst, 1, IF Len(lst) < n THEN Len(lst) ELSE n)

\* round(x, 2) of the number p.num / p.den, in hundredths; no number used
\* here lies halfway between two hundredths
round_2(p) ==
    LET twice == (2 * 100 * p.num) \div p.den
    IN  Pct((twice + 1) \div 2, 100)

\* a ValidationResult as validate builds it for a rule that did not raise
ResultObject(severity, passed, total_records, ids) ==
    [class |-> "ValidationResult",
     rule_name |-> "R1",
     description |-> "D1",
     severity |-> Member(severity),
     passed |-> passed,
     records_checked |-> total_records,
     records_failed |-> Len(ids),
     failure_percentage |-> failure_pct(Len(ids), total_records),
     failed_record_ids |-> ids,
     details |-> {},
     timestamp |-> "t0"]

ResultObjects ==
    {ResultObject(severity, Len(ids) = 0, Len(ids) + 2, ids) :
        severity \in {"error", "warning"}, ids \in IdLists}

\* ValidationResult.to_dict
ValidationResult_to_dict(self) ==
    [rule_name |-> self.rule_name,
     description |-> self.description,
     severity |-> value_of(self.severity),
     passed |-> self.passed,
     records_checked |-> self.records_checked,
     records_failed |-> self.records_failed,
     failure_percentage |-> round_2(self.failure_percentage),
     failed_record_ids |-> slice_to(self.failed_record_ids, StorageLimit),
     details |-> self.details,
     timestamp |-> self.timestamp]

ValidationStatus == {"passed", "failed", "passed_with_warnings"}

\* a DataQualityReport
ReportObject(status, res) ==
    [class |-> "DataQualityReport",
     domain |-> "DM",
     source_path |-> "",
     validation_timestamp |-> "t0",
     total_records |-> IF res = <<>> THEN 0 ELSE res[1].records_checked,
     status |-> Member(status),
     results |-> res,
     metadata |-> {}]

ReportObjects ==
    {ReportObject("passed", <<>>)}
    \cup {ReportObject(IF r.passed THEN "passed"
                       ELSE IF value_of(r.severity) = "error" THEN "failed"
                       ELSE "passed_with_warnings", <<r>>) : r \in ResultObjects}

\* DataQualityReport.to_dict
DataQualityReport_to_dict(self) ==
    [domain |-> self.domain,
     source_path |-> self.source_path,
     validation_timestamp |-> self.validation_timestamp,
     total_records |-> self.total_records,
     status |-> value_of(self.status),
     summary |->
        [total_checks |-> Len(self.results),
         passed |-> Cardinality({i \in 1..Len(self.results) : self.results[i].passed}),
         failed |-> Cardinality({i \in 1..Len(self.results) : ~self.results[i].passed}),
         errors |-> Cardinality({i \in 1..Len(self.results) :
                        /\ ~self.results[i].passed
                        /\ self.results[i].severity = Member("error")}),
         warnings |-> Cardinality({i \in 1..Len(self.results) :
                        /\ ~self.results[i].passed
                        /\ self.results[i].severity = Member("warning")})],
     results |-> [i \in 1..Len(self.results) |->
                     ValidationResult_to_dict(self.results[i])],
     metadata |-> self.metadata]

s_None == <<"N", "o", "n", "e">>

\* str(value) of None or of a string
py_str(value) == IF value = None THEN s_None ELSE value[1]

\* a SchemaChange as _detect_schema_changes builds it
SchemaChangeObject(change) ==
    [class |-> "SchemaChange",
     change_type |-> Member(change.change_type),
     column_name |-> change.column_name,
     old_value |-> change.old_value,
     new_value |-> change.new_value,
     is_breaking |-> change.is_breaking,
     description |-> "D1"]

\* SchemaChange.to_dict
SchemaChange_to_dict(self) ==
    [change_type |-> value_of(self.change_type),
     column_name |-> self.column_name,
     old_value |-> py_str(self.old_value),
     new_value |-> py_str(self.new_value),
     is_breaking |-> self.is_breaking,
     description |-> self.description]

\* the ContractValidationResult that validate_against_contract returns
ContractResultObject(r) ==
    [class |-> "ContractValidationResult",
     contract_name |-> r.contract_name,
     contract_version |-> "1.0.0",
     schema_hash |-> "h0",
     timestamp |-> "t0",
     schema_changes |-> [i \in 1..Len(r.schema_changes) |->
                            SchemaChangeObject(r.schema_changes[i])],
     has_breaking_changes |-> r.has_breaking_changes,
     value_validation |-> r.value_validation,
     total_records |-> r.total_records,
     failed_records |-> r.failed_records,
     is_valid |-> r.is_valid,
     action |-> r.action]

ContractResultObjects ==
    {ContractResultObject(r) :
        r \in UNION {validate_against_contract(d, load(data)) :
                        d \in LoadDatasets,
                        data \in {f \in ContractFiles : ~load_raises(f)}}}

\* ContractValidationResult.to_dict
ContractValidationResult_to_dict(self) ==
    [contract_name |-> self.contract_name,
     contract_version |-> self.contract_version,
     schema_hash |-> self.schema_hash,
     timestamp |-> self.timestamp,
     schema_changes |-> [i \in 1..Len(self.schema_changes) |->
                            SchemaChange_to_dict(self.schema_changes[i])],
     has_breaking_changes |-> self.has_breaking_changes,
     value_validation |-> self.value_validation,
     total_records |-> self.total_records,
     failed_records |-> self.failed_records,
     is_valid |-> self.is_valid,
     action |-> self.action]

\* DataAsset.from_s3_path(s3_path, layer, record_count)
AssetObject(asset, layer) ==
    [class |-> "DataAsset",
     asset_id |-> <<"md5", asset.location>>,
     name |-> asset.location,
     asset_type |-> "file",
     location |-> asset.location,
     layer |-> Member(layer),
     schema_hash |-> None,
     record_count |-> asset.record_count,
     created_at |-> "t0",
     metadata |-> {}]

\* DataAsset.to_dict
DataAsset_to_dict(self) ==
    [asset_id |-> self.asset_id,
     name |-> self.name,
     asset_type |-> self.asset_type,
     location |-> self.location,
     layer |-> value_of(self.layer),
     schema_hash |-> self.schema_hash,
     record_count |-> self.record_count,
     created_at |-> self.created_at,
     metadata |-> self.metadata]

\* a LineageEvent as build_event returns it
EventObject(event_type, input_assets, output_assets, validation_status, duration) ==
    [class |-> "LineageEvent",
     event_id |-> "e1",
     event_type |-> Member(event_type),
     timestamp |-> "t0",
     triggered_by |-> "glue:bronze_to_silver",
     input_assets |-> input_assets,
     output_assets |-> output_assets,
     transformation_logic |-> None,
     parameters |-> {},
     validation_status |-> validation_status,
     records_in |-> SumCounts(input_assets),
     records_out |-> SumCounts(output_assets),
     records_rejected |-> 0,
     execution_id |-> None,
     duration_seconds |-> duration]

EventAssetLists ==
    {<<>>, <<AssetObject(DataAsset("A", None), "bronze")>>,
     <<AssetObject(DataAsset("C", Some(5)), "silver")>>}

EventObjects ==
    {EventObject(event_type, input_assets, output_assets, validation_status, duration) :
        event_type \in {"transformation", "promotion"},
        input_assets \in EventAssetLists,
        output_assets \in EventAssetLists,
        validation_status \in {None, Some("passed")},
        duration \in {None, Some(1)}}

\* a.to_dict() if isinstance(a, DataAsset) else a
asset_to_dict(a) ==
    IF "class" \in DOMAIN a /\ a.class = "DataAsset" THEN DataAsset_to_dict(a) ELSE a

\* LineageEvent.to_dict
LineageEvent_to_dict(self) ==
    [event_id |-> self.event_id,
     event_type |-> value_of(self.event_type),
     timestamp |-> self.timestamp,
     triggered_by |-> self.triggered_by,
     input_assets |-> [i \in 1..Len(self.input_assets) |->
                          asset_to_dict(self.input_assets[i])],
     output_assets |-> [i \in 1..Len(self.output_assets) |->
                           asset_to_dict(self.output_assets[i])],
     transformation_logic |-> self.transformation_logic,
     parameters |-> self.parameters,
     validation_status |-> self.validation_status,
     records_in |-> self.records_in,
     records_out |-> self.records_out,
     records_rejected |-> self.records_rejected,
     execution_id |-> self.execution_id,
     duration_seconds |-> self.duration_seconds]

\* two objects of one class
InitSerial ==
    /\ serial_objects \in (ReportObjects \X ReportObjects)
                          \cup (ContractResultObjects \X ContractResultObjects)
                          \cup (EventObjects \X EventObjects)
    /\ serial_dicts = <<>>
    /\ InitContractIdle
    /\ InitValidatorIdle
    /\ InitThreadsIdle
    /\ InitQueryIdle
    /\ InitTrackerIdle
    /\ InitHashIdle
    /\ InitLoadIdle
    /\ InitIngestIdle

\* report.to_dict() of both objects
ReportToDict ==
    /\ serial_dicts = <<>>
    /\ serial_objects[1].class = "DataQualityReport"
    /\ serial_dicts' = <<DataQualityReport_to_dict(serial_objects[1]),
                         DataQualityReport_to_dict(serial_objects[2])>>
    /\ UNCHANGED serial_objects
    /\ UNCHANGED nonSerialVars

\* result.to_dict() of both objects
ContractResultToDict ==
    /\ serial_dicts = <<>>
    /\ serial_objects[1].class = "ContractValidationResult"
    /\ serial_dicts' = <<ContractValidationResult_to_dict(serial_objects[1]),
                         ContractValidationResult_to_dict(serial_objects[2])>>
    /\ UNCHANGED serial_objects
    /\ UNCHANGED nonSerialVars

\* event.to_dict() of both objects
EventToDict ==
    /\ serial_dicts = <<>>
    /\ serial_objects[1].class = "LineageEvent"
    /\ serial_dicts' = <<LineageEvent_to_dict(serial_objects[1]),
                         LineageEvent_to_dict(serial_objects[2])>>
    /\ UNCHANGED serial_objects
    /\ UNCHANGED nonSerialVars

NextSerial == ReportToDict \/ ContractResultToDict \/ EventToDict

SpecSerial == InitSerial /\ [][NextSerial]_vars

\* C25: to_dict followed by parsing the record back reproduces every field
\* value and enum tag of a QualityReport, a ContractValidationResult or a
\* LineageEvent, also when results carry more than 100 failed_record_ids.
\* What is parsed back is determined by the record, so two objects that
\* to_dict turns into the same record are the same object.
C25_RoundTrip ==
    (serial_dicts # <<>> /\ serial_dicts[1] = serial_dicts[2])
        => serial_objects[1] = serial_objects[2]

-----------------------------------------------------------------------------
(* The ingestion handler (src/src/ingestion/package/lambda_handler.py) *)

\* the most records in one S3 event
MaxRecords == 2

\* object keys, as tuples of characters
k_dm_csv == <<"d", "m", ".", "c", "s", "v">>
k_ae_CSV == <<"A", "E", ".", "C", "S", "V">>
k_a_b_json == <<"a", "+", "b", ".", "j", "s", "o", "n">>
k_notes_txt == <<"n", ".", "t", "x", "t">>
k_gone_xml == <<"g", ".", "x", "m", "l">>

\* unquote_plus(key): "+" stands for a space (no key used here holds a
\* percent escape)
unquote_plus(key) == [i \in 1..Len(key) |-> IF key[i] = "+" THEN " " ELSE key[i]]

\* the objects of the landing bucket: every key of an event but k_gone_xml
LandingObjects ==
    {unquote_plus(k) : k \in {k_dm_csv, k_ae_CSV, k_a_b_json, k_notes_txt}}

\* sizes in KiB
max_size == 5 * 1024 * 1024

\* S3 event records: record["s3"]["object"] with key and size, with a key
\* only, and a record without "s3"
S3Records ==
    {[key |-> k_dm_csv, size |-> 1],
     [key |-> k_dm_csv, size |-> 0],
     [key |-> k_dm_csv, size |-> max_size + 1],
     [key |-> k_dm_csv],
     [key |-> k_ae_CSV, size |-> max_size],
     [key |-> k_a_b_json, size |-> 1],
     [key |-> k_notes_txt, size |-> 1],
     [key |-> k_gone_xml, size |-> 1],
     [eventSource |-> "aws:sns"]}

\* the events: {} and {"Records": [...]}
S3Events == {<<>>} \cup {[Records |-> rs] : rs \in SeqsUpTo(S3Records, MaxRecords)}

\* event.get("Records", [])
records_of(ev) == IF "Records" \in DOMAIN ev THEN ev.Records ELSE <<>>

\* record["s3"]["object"]["key"] raises KeyError
raises_KeyError(record) == "key" \notin DOMAIN record

\* record["s3"]["object"].get("size", 0)
size_of(record) == IF "size" \in DOMAIN record THEN record.size ELSE 0

\* c.lower() of one character
lower_char(c) ==
    CASE c = "A" -> "a" [] c = "E" -> "e" [] c = "C" -> "c"
      [] c = "S" -> "s" [] c = "V" -> "v" [] OTHER -> c

\* key.lower()
lower(key) == [i \in 1..Len(key) |-> lower_char(key[i])]

\* s.endswith(suffix)
endswith(s, suffix) ==
    /\ Len(suffix) <= Len(s)
    /\ SubSeq(s, Len(s) - Len(suffix) + 1, Len(s)) = suffix

valid_extensions ==
    <<<<".", "c", "s", "v">>, <<".", "p", "a", "r", "q", "u", "e", "t">>,
      <<".", "j", "s", "o", "n">>, <<".", "x", "m", "l">>>>

\* validate_file(bucket, key, size); head_raises says whether
\* s3_client.head_object raised ClientError
validate_file(key, size, head_raises) ==
    IF size > max_size THEN [valid |-> FALSE, reason |-> "File too large"]
    ELSE IF size = 0 THEN [valid |-> FALSE, reason |-> "Empty file"]
    ELSE IF ~\E i \in 1..Len(valid_extensions) : endswith(lower(key), valid_extensions[i])
    THEN [valid |-> FALSE, reason |-> "Invalid file type"]
    ELSE IF head_raises THEN [valid |-> FALSE, reason |-> "Cannot access file"]
    ELSE [valid |-> TRUE, reason |-> ""]

\* the result the handler appends in "except Exception as e"
error_result(error, record) ==
    [status |-> "error", error |-> error, record |-> record]

\* the result process_record returns; the ingestion_id of the record
\* processed i-th is i
success_result(key, i) ==
    [status |-> "success", source_key |-> key, bronze_key |-> <<i, key>>]

\* mutant: the handler drops the result of a record that raised
results_without_error(res, e) == res

\* results.append({"status": "error", ...})
results_with_error(res, e) == Append(res, e)

\* mutant: the landing object is deleted after the copy
landing_after_move_deleting(objects, key) == objects \ {key}

\* move_to_bronze leaves the landing object in place (the delete_object call
\* is commented out)
landing_after_move(objects, key) == objects

\* the record being processed
current_record == records_of(s3_event)[h_pc.i]

InitIngest ==
    /\ s3_event \in S3Events
    /\ h_results = <<>>
    /\ h_pc = [at |-> "record", i |-> 1]
    /\ response = <<>>
    /\ landing = LandingObjects
    /\ bronze = {}
    /\ lineage_store = {}
    /\ InitContractIdle
    /\ InitValidatorIdle
    /\ InitThreadsIdle
    /\ InitQueryIdle
    /\ InitTrackerIdle
    /\ InitHashIdle
    /\ InitLoadIdle
    /\ InitSerialIdle

\* the handler appends an error result and goes on to the next record
next_record_after(error) ==
    /\ h_results' = results_with_error(h_results, error_result(error, current_record))
    /\ h_pc' = [at |-> "record", i |-> h_pc.i + 1]

\* process_record up to "if not validation_result['valid']: raise"
ValidateFile ==
    /\ h_pc.at = "record"
    /\ h_pc.i <= Len(records_of(s3_event))
    /\ IF raises_KeyError(current_record)
       THEN next_record_after("KeyError")
       ELSE \E head_raises \in BOOLEAN :
              /\ unquote_plus(current_record.key) \notin landing => head_raises
              /\ LET validation_result ==
                         validate_file(unquote_plus(current_record.key),
                                       size_of(current_record), head_raises)
                 IN  IF ~validation_result.valid
                     THEN next_record_after(validation_result.reason)
                     ELSE /\ h_pc' = [h_pc EXCEPT !.at = "validated"]
                          /\ UNCHANGED h_results
    /\ UNCHANGED <<s3_event, response, landing, bronze, lineage_store>>
    /\ UNCHANGED nonIngestVars

\* move_to_bronze: s3_client.copy_object succeeds or raises
MoveToBronze ==
    /\ h_pc.at = "validated"
    /\ \E copy_raises \in BOOLEAN :
         LET key == unquote_plus(current_record.key)
         IN  IF copy_raises \/ key \notin landing
             THEN /\ next_record_after("copy_object")
                  /\ UNCHANGED <<landing, bronze>>
             ELSE /\ bronze' = bronze \cup {<<h_pc.i, key>>}
                  /\ landing' = landing_after_move(landing, key)
                  /\ h_pc' = [h_pc EXCEPT !.at = "copied"]
                  /\ UNCHANGED h_results
    /\ UNCHANGED <<s3_event, response, lineage_store>>
    /\ UNCHANGED nonIngestVars

\* write_lineage: s3_client.put_object succeeds or raises; then
\* process_record returns and the handler appends its result
WriteLineage ==
    /\ h_pc.at = "copied"
    /\ \E put_raises \in BOOLEAN :
         LET key == unquote_plus(current_record.key)
         IN  IF put_raises
             THEN /\ next_record_after("put_object")
                  /\ UNCHANGED lineage_store
             ELSE /\ lineage_store' = lineage_store \cup {<<h_pc.i, key>>}
                  /\ h_results' = Append(h_results, success_result(key, h_pc.i))
                  /\ h_pc' = [at |-> "record", i |-> h_pc.i + 1]
    /\ UNCHANGED <<s3_event, response, landing, bronze>>
    /\ UNCHANGED nonIngestVars

\* the response of the handler
response_of(res) ==
    LET errors == SelectSeq(res, LAMBDA r : r.status = "error")
    IN  [statusCode |-> IF errors = <<>> THEN 200 ELSE 207,
         body |-> [processed |-> Len(res),
                   successful |-> Len(res) - Len(errors),
                   failed |-> Len(errors),
                   results |-> res]]

\* the loop is over: "return {...}"
HandlerReturn ==
    /\ h_pc.at = "record"
    /\ h_pc.i > Len(records_of(s3_event))
    /\ response' = <<response_of(h_results)>>
    /\ h_pc' = [h_pc EXCEPT !.at = "done"]
    /\ UNCHANGED <<s3_event, h_results, landing, bronze, lineage_store>>
    /\ UNCHANGED nonIngestVars

NextIngest == ValidateFile \/ MoveToBronze \/ WriteLineage \/ HandlerReturn

SpecIngest == InitIngest /\ [][NextIngest]_vars

-----------------------------------------------------------------------------
(* Claims about the ingestion handler *)

EventRecords == records_of(s3_event)

\* the position of a result is the position of its record in the event
ResultOfRecord(res, record) ==
    IF res.status = "error"
    THEN res.record = record
    ELSE /\ "key" \in DOMAIN record
         /\ res.source_key = unquote_plus(record.key)

\* C26: the handler processes every record of the event in order; an
\* exception while processing one record becomes an error result and the
\* following records are still processed.  In the response processed is the
\* number of records and equals successful + failed, and statusCode is 200
\* exactly when failed = 0 (also for the empty event) and 207 otherwise.
C26_HandlerIsolatesFailures ==
    response # <<>> =>
        LET body == response[1].body
        IN  /\ body.processed = Len(EventRecords)
            /\ Len(body.results) = Len(EventRecords)
            /\ \A i \in 1..Len(EventRecords) :
                   ResultOfRecord(body.results[i], EventRecords[i])
            /\ body.failed =
                   Cardinality({i \in 1..Len(body.results) :
                                   body.results[i].status = "error"})
            /\ body.processed = body.successful + body.failed
            /\ response[1].statusCode = (IF body.failed = 0 THEN 200 ELSE 207)

\* C26 witness: the handler has returned for an event of two records, the
\* first of which raised and the second of which was ingested
C26_Witness ==
    /\ response # <<>>
    /\ Len(EventRecords) = 2
    /\ response[1].body.results[1].status = "error"
    /\ response[1].body.results[2].status = "success"
    /\ response[1].statusCode = 207

\* what validate_file requires of a record, stated on the record itself
Ingestible(record) ==
    /\ "key" \in DOMAIN record
    /\ "size" \in DOMAIN record
    /\ record.size >= 1
    /\ record.size <= max_size
    /\ \E ext \in {<<"c", "s", "v">>, <<"p", "a", "r", "q", "u", "e", "t">>,
                   <<"j", "s", "o", "n">>, <<"x", "m", "l">>} :
           endswith(lower(record.key), <<".">> \o ext)
    /\ unquote_plus(record.key) \in LandingObjects

\* the copy and the lineage record of the record processed i-th
CopyOf(i) == {b \in bronze : b[1] = i}
LineageOf(i) == {l \in lineage_store : l[1] = i}

\* C30: process_record validates, then copies to bronze, then writes the
\* lineage record, and stops at the first step that fails: a file that
\* failed validation has no bronze copy, a lineage record is written only
\* after the copy succeeded, a success result is returned only after the
\* lineage record was written, and the landing object is never deleted.
C30_StepOrder ==
    /\ [](\A b \in bronze :
            /\ b[1] <= Len(EventRecords)
            /\ Ingestible(EventRecords[b[1]])
            /\ b[2] = unquote_plus(EventRecords[b[1]].key))
    /\ [](lineage_store \subseteq bronze)
    /\ [](\A i \in 1..Len(h_results) :
            IF h_results[i].status = "success"
            THEN CopyOf(i) # {} /\ LineageOf(i) # {}
            ELSE /\ LineageOf(i) = {}
                 /\ h_results[i].error # "put_object" => CopyOf(i) = {})
    /\ [][bronze' # bronze => h_pc.at = "validated" /\ h_pc'.at = "copied"]_vars
    /\ [][lineage_store' # lineage_store =>
            h_pc.at = "copied" /\ CopyOf(h_pc.i) # {}]_vars
    /\ [][landing' = landing]_vars

\* C30 witness: one record was copied and its lineage record written, and
\* another was copied but its lineage record could not be written
C30_Witness ==
    /\ \E i \in 1..Len(h_results) :
           h_results[i].status = "success" /\ LineageOf(i) # {}
    /\ \E i \in 1..Len(h_results) :
           /\ h_results[i].status = "error"
           /\ h_results[i].error = "put_object"
           /\ CopyOf(i) # {}
           /\ LineageOf(i) = {}

-----------------------------------------------------------------------------
(* get_upstream as a function of the batch, and the mirror of a batch *)

\* "while queue:" run to its end: the list returned
RECURSIVE while_queue(_, _, _, _, _, _)
while_queue(index, side, depth, q, seen, res) ==
    IF q = <<>> THEN res
    ELSE LET current_loc == Head(q)[1]
             current_depth == Head(q)[2]
             events == get(index, current_loc)
         IN  IF skip(current_loc, current_depth, seen, depth)
             THEN while_queue(index, side, depth, Tail(q), seen, res)
             ELSE while_queue(index, side, depth,
                              Tail(q) \o appended(events, side, seen \cup {current_loc},
                                                  current_depth + 1),
                              seen \cup {current_loc}, res \o events)

\* LineageQuery(recs).get_upstream(asset_location, depth)
get_upstream(recs, asset_location, depth) ==
    while_queue(_build_index(recs, "output_assets"), "input_assets", depth,
                <<<<asset_location, 0>>>>, {}, <<>>)

\* an event with its input_assets and output_assets exchanged
swap(record) ==
    [record EXCEPT !.input_assets = record.output_assets,
                   !.output_assets = record.input_assets]

swapped(recs) == [i \in 1..Len(recs) |-> swap(recs[i])]

\* C27: get_downstream is the mirror of get_upstream: for every batch, seed
\* location and max_depth, get_downstream on the batch returns the events
\* that get_upstream returns on the batch with every event's input_assets
\* and output_assets swapped, in the same order (the events of the mirrored
\* batch being the mirrored events).
C27_DownstreamMirrorsUpstream ==
    /\ (Returned_q /\ query.name = "get_upstream") =>
           q_result = get_upstream(records, query.asset_location, query.depth)
    /\ (Returned_q /\ query.name = "get_downstream") =>
           swapped(q_result)
               = get_upstream(swapped(records), query.asset_location, query.depth)

\* C27 witness: get_downstream has returned two events after expanding two
\* locations, the events having different inputs and outputs
C27_Witness ==
    /\ Returned_q
    /\ query.name = "get_downstream"
    /\ Len(expansions) >= 2
    /\ Len(q_result) = 2
    /\ q_result[1] # q_result[2]
    /\ \A i \in 1..2 : swap(q_result[i]) # q_result[i]

-----------------------------------------------------------------------------
(* Omitted nullable columns *)

\* the contract columns the dataset lacks
MissingColumns == ContractNames \ df_columns(df)

\* C28: a dataset that omits only contract columns declared nullable is OK:
\* under a BACKWARD contract the omission of a nullable column is not a
\* breaking change and does not by itself make validate_against_contract
\* return quarantine.
C28_NullableOmissionOK ==
    (/\ Returned
     /\ contract.compatibility_mode = "backward"
     /\ MissingColumns # {}
     /\ \A col \in MissingColumns : ColumnOf(col).nullable) =>
        /\ \A ch \in Changes(result[1]) :
               ch.change_type = "column_removed" => ~ch.is_breaking
        /\ (/\ \A ch \in Changes(result[1]) : ch.change_type = "column_removed"
            /\ result[1].failed_records = 0) => result[1].action # "quarantine"

-----------------------------------------------------------------------------
(* The pre-built validators and validate_clinical_data *)

\* the most rows of a dataset handed to validate_clinical_data
MaxCRows == 2

Rule(name, description, func, severity) ==
    [name |-> name, description |-> description, func |-> func, severity |-> severity]

\* validator.rules of create_dm_validator()
create_dm_validator ==
    <<Rule("DM_001", "USUBJID must be unique - each subject appears only once",
           "check_usubjid_unique", "error"),
      Rule("DM_002", "USUBJID cannot be null", "check_usubjid_not_null", "error"),
      Rule("DM_003", "AGE must be between 0 and 120 years", "check_age_range", "error"),
      Rule("DM_004", "SEX must be M, F, U, or UNDIFFERENTIATED (CDISC CT)",
           "check_sex_values", "error"),
      Rule("DM_005", "ARM (treatment arm) should be populated",
           "check_arm_populated", "warning"),
      Rule("DM_006", "RFSTDTC must be valid ISO 8601 date format (YYYY-MM-DD)",
           "check_rfstdtc_format", "error")>>

\* validator.rules of create_ae_validator()
create_ae_validator ==
    <<Rule("AE_001", "USUBJID cannot be null", "check_usubjid_not_null", "error"),
      Rule("AE_002", "AETERM (adverse event term) cannot be null",
           "check_aeterm_not_null", "error"),
      Rule("AE_003", "AESEV must be MILD, MODERATE, or SEVERE",
           "check_severity_values", "error"),
      Rule("AE_004", "AESER (serious flag) must be Y or N", "check_serious_flag", "error"),
      Rule("AE_005", "AEENDTC (end date) must be >= AESTDTC (start date)",
           "check_date_logic", "error")>>

\* validator.rules of create_vs_validator()
create_vs_validator ==
    <<Rule("VS_001", "USUBJID cannot be null", "check_usubjid_not_null", "error"),
      Rule("VS_002", "VSTESTCD (test code) cannot be null",
           "check_vstestcd_not_null", "error"),
      Rule("VS_003", "VSSTRESN (numeric result) should be positive",
           "check_positive_values", "warning"),
      Rule("VS_004", "Vital sign values must be within physiological range",
           "check_vital_ranges", "warning")>>

\* validator.rules of create_lb_validator()
create_lb_validator ==
    <<Rule("LB_001", "USUBJID cannot be null", "check_usubjid_not_null", "error"),
      Rule("LB_002", "LBTESTCD (test code) cannot be null",
           "check_lbtestcd_not_null", "error"),
      Rule("LB_003", "LBNRIND must be LOW, NORMAL, HIGH, or ABNORMAL",
           "check_nrind_values", "warning"),
      Rule("LB_004", "LBORNRLO must be less than LBORNRHI", "check_range_logic", "error")>>

\* the validators dictionary of validate_clinical_data
Domains == {"DM", "AE", "VS", "LB"}

validators(domain) ==
    CASE domain = "DM" -> create_dm_validator
      [] domain = "AE" -> create_ae_validator
      [] domain = "VS" -> create_vs_validator
      [] domain = "LB" -> create_lb_validator

\* date strings
d_0110 == <<"2", "0", "2", "4", "-", "0", "1", "-", "1", "0">>
d_0115 == <<"2", "0", "2", "4", "-", "0", "1", "-", "1", "5">>
d_0116 == <<"2", "0", "2", "4", "-", "0", "1", "-", "1", "6">>
d_0120 == <<"2", "0", "2", "4", "-", "0", "1", "-", "2", "0">>
d_0230 == <<"2", "0", "2", "4", "-", "0", "2", "-", "3", "0">>
d_slashes == <<"1", "5", "/", "0", "1", "/", "2", "0", "2", "4">>
d_with_time == d_0115 \o <<"T", "1", "0", ":", "0", "0">>
d_space_day == <<"2", "0", "2", "4", "-", "0", "1", "-", " ", "5">>

\* a column of a clean dataset: its dtype, the cell of a clean row, and the
\* cells tried in its place
Field(name, dtype, clean, others) ==
    [name |-> name, dtype |-> dtype, clean |-> clean, others |-> others]

\* the columns the rules of a domain read, with USUBJID first; the clean
\* USUBJID of row i is i, and USUBJID 1 in a later row is a duplicate
Fields(domain) ==
    <<Field("USUBJID", p_object, None, {None, Some(1)})>> \o
    (CASE domain = "DM" ->
            <<Field("AGE", p_float64, Some(30), {None, Some(150), Some(-1)}),
              Field("SEX", p_object, Some("M"), {None, Some("f"), Some("X")}),
              Field("ARM", p_object, Some("ARM A"), {None}),
              Field("RFSTDTC", p_object, Some(d_0115),
                    {None, Some(d_0230), Some(d_slashes), Some(d_with_time),
                     Some(d_space_day)})>>
       [] domain = "AE" ->
            <<Field("AETERM", p_object, Some("HEADACHE"), {None}),
              Field("AESEV", p_object, Some("MILD"), {None, Some("mild"), Some("FATAL")}),
              Field("AESER", p_object, Some("Y"), {None, Some("y"), Some("MAYBE")}),
              Field("AESTDTC", p_object, Some(d_0115), {None, Some(d_0120)}),
              Field("AEENDTC", p_object, Some(d_0116), {None, Some(d_0110)})>>
       [] domain = "VS" ->
            <<Field("VSTESTCD", p_object, Some("HR"), {None, Some("SYSBP"), Some("TEMP")}),
              Field("VSSTRESN", p_float64, Some(72),
                    {None, Some(-5), Some(300), Some(40)})>>
       [] domain = "LB" ->
            <<Field("LBTESTCD", p_object, Some("GLUC"), {None}),
              Field("LBNRIND", p_object, Some("NORMAL"), {None, Some("low"), Some("WEIRD")}),
              Field("LBORNRLO", p_float64, Some(70), {None, Some(100), Some(120)}),
              Field("LBORNRHI", p_float64, Some(100), {None})>>)

\* the clean cell of a field in row i
clean_cell(field, i) == IF field.name = "USUBJID" THEN Some(i) ELSE field.clean

\* the clean dataset of a domain with n rows
CleanData(domain, n) ==
    DataFrame(n, [k \in 1..Len(Fields(domain)) |->
                    Column(Fields(domain)[k].name, Fields(domain)[k].dtype,
                           [i \in 1..n |-> clean_cell(Fields(domain)[k], i)])])

\* d without its k-th column
without_column(d, k) ==
    DataFrame(d.n, SubSeq(d.columns, 1, k - 1) \o SubSeq(d.columns, k + 1, Len(d.columns)))

\* d with the cell of row i of its k-th column replaced
with_cell(d, k, i, cell) ==
    DataFrame(d.n, [d.columns EXCEPT ![k].data[i] = cell])

\* d with its k-th column read as a float64 column of NaN, as pandas reads a
\* column without any value
with_nan_column(d, k) ==
    DataFrame(d.n, [d.columns EXCEPT ![k].dtype = p_float64,
                                     ![k].data = [i \in 1..d.n |-> None]])

\* the datasets of a domain: pd.DataFrame(), a frame of rows without a
\* column, and the clean dataset of up to MaxCRows rows as it is, without one
\* column, with one cell replaced, and with one column holding no value
ClinicalDatasets(domain) ==
    {DataFrame(n, <<>>) : n \in 0..MaxCRows}
    \cup UNION {
        LET d == CleanData(domain, n)
            columns == 1..Len(Fields(domain))
        IN  {d}
            \cup {without_column(d, k) : k \in columns}
            \cup {with_nan_column(d, k) : k \in columns}
            \cup UNION {{with_cell(d, k, i, cell) : cell \in Fields(domain)[k].others} :
                            k \in columns, i \in 1..n} :
        n \in 0..MaxCRows}

\* validate_clinical_data(df, domain, source_path) for a supported domain
validate_clinical_data(d, domain, source_path) ==
    /\ rules' = validators(domain)
    /\ results' = run_rules(rules', d, "USUBJID")
    /\ report' = <<[DataQualityReport(len_df(d), results')
                        EXCEPT !.domain = domain, !.source_path = source_path]>>
    /\ vdf' = <<d>>
    /\ UNCHANGED nonValidatorVars

\* one call, with the dataset of any domain
ValidateClinicalData ==
    /\ report = <<>>
    /\ \E domain \in Domains, data_of \in Domains :
        \E d \in ClinicalDatasets(data_of) :
            validate_clinical_data(d, domain, "s3://bucket/bronze/")

NextClinical == ValidateClinicalData

SpecClinical == InitValidator /\ [][NextClinical]_vars

\* C29 as claimed: in every report of validate_clinical_data for a pre-built
\* rule set and any dataset, an empty one or one that lacks a column a rule
\* reads included, each result has passed = true exactly when
\* records_failed = 0.
C29_PassedIffNoneFailed ==
    Reported =>
        \A res \in Range(report[1].results) :
            res.passed <=> res.records_failed = 0

\* C29 amended: each result has passed = true exactly when records_failed = 0,
\* except the result of a rule whose predicate raises on a dataset of no
\* rows, which has passed = false and records_failed = 0.
C29_PassedIffNoneFailedUnlessRaisedOnNoRows ==
    Reported =>
        \A i \in 1..Len(report[1].results) :
            LET res == report[1].results[i]
            IN  IF report[1].total_records = 0 /\ Raises(i)
                THEN ~res.passed /\ res.records_failed = 0
                ELSE res.passed <=> res.records_failed = 0

\* C29 witness: a report on a dataset with rows in which one rule raises and
\* has every record failed, one rule returns failed records, and one rule
\* passes with none failed.
C29_Witness ==
    /\ Reported
    /\ report[1].total_records >= 1
    /\ \E i, j, k \in 1..Len(report[1].results) :
        /\ Raises(i)
        /\ ~report[1].results[i].passed
        /\ report[1].results[i].records_failed = report[1].total_records
        /\ ~Raises(j)
        /\ ~report[1].results[j].passed
        /\ report[1].results[j].records_failed >= 1
        /\ report[1].results[k].passed
        /\ report[1].results[k].records_failed = 0

====
